---- MODULE Spec2Model ----
(***************************************************************************)
(* Ingestion - cache - summarization pipeline of the Teams summarizer:     *)
(* the SQLite message cache (lib/db.ts), the Graph client with retry and   *)
(* pagination (lib/microsoft-graph.ts) and the two route handlers          *)
(* GET /api/messages and POST /api/summarize.                              *)
(***************************************************************************)
EXTENDS Integers, Sequences, FiniteSets, TLC

\* ------------------------------------------------------------------------
\* Bounds of the model
\* ------------------------------------------------------------------------
MaxDay == 1
MaxPages == 2
MaxSegs == 4
MaxSummaries == 3

\* Instants are counted in ticks; a day has two of them, 00:00:00 and 23:59:59.
TimesOfDay == {"00:00:00", "23:59:59"}
TicksPerDay == Cardinality(TimesOfDay)
Days == 0..MaxDay
Instants == 0..((MaxDay + 1) * TicksPerDay - 1)

NULL == "NULL"
MsgIds == {"m1", "m2"}
ChatIds == {"c1", "c2"}

\* ------------------------------------------------------------------------
\* Date and string conversions
\* ------------------------------------------------------------------------
\* An ISO-8601 timestamp string: the instant it denotes and whether it is
\* written with fractional seconds ("...:00.000Z") or without ("...:00Z").
IsoStrings == [t : Instants, frac : BOOLEAN]

\* Date.prototype.toISOString always writes the milliseconds.
toISOString(d) == [t |-> d, frac |-> TRUE]

\* toISOString().split('T')[0] and SQLite's DATE(): the UTC calendar day.
DateOf(iso) == iso.t \div TicksPerDay

\* Byte-wise string order of two timestamp strings, as SQLite compares TEXT:
\* "...:00.000Z" sorts before "...:00Z" for the same instant ('.' < 'Z').
IsoLess(a, b) == \/ a.t < b.t
                 \/ a.t = b.t /\ a.frac /\ ~b.frac

\* JavaScript's  x || null  on an optional string: "" and undefined become NULL.
OrNull(x) == IF x = "" \/ x = NULL THEN NULL ELSE x

\* The same on a text held as a sequence of tokens.
TextOrNull(x) == IF x = << >> THEN [null |-> TRUE] ELSE [null |-> FALSE, text |-> x]

\* ------------------------------------------------------------------------
\* State
\* ------------------------------------------------------------------------
VARIABLES
    messages,          \* table messages, in rowid order
    summaries,         \* table summaries, in rowid order
    lastInsertRowid,   \* per connection: sqlite3_last_insert_rowid
    dbCall,            \* the last direct call of a cache operation and its result
    remote,            \* the Graph service: per chat, the chain of pages of its messages
    mockMode,          \* isMockMode(): USE_MOCK_AUTH or USE_MOCK_DATA is 'true'
    fetch,             \* per caller: the locals of its getChatMessages / retryWithBackoff call
    monitored_chats,   \* table monitored_chats, in rowid order
    envProvider,       \* process.env.AI_PROVIDER
    pc,                \* per request: where its handler is suspended
    req,               \* per request: what the caller sent
    loc,               \* per request: the locals of POST /api/summarize across its await
    resp,              \* per request: the response of the handler
    hist,              \* per request: what the pass did to the cache and the backend
    llm,               \* the locals of a direct generateSummary call across its awaits
    parse              \* a direct parseSummaryResponse call: its arguments and result

vars == <<messages, summaries, lastInsertRowid, dbCall, remote, mockMode, fetch,
          monitored_chats, envProvider, pc, req, loc, resp, hist, llm, parse>>
dbVars == <<messages, summaries, lastInsertRowid>>
clientVars == <<remote, mockMode, fetch>>
passVars == <<monitored_chats, envProvider, pc, req, loc, resp, hist>>

llmVars == <<llm, parse>>

NoCall == [op |-> "none"]

\* No provider function is being called directly.
NoLlmCalls ==
    /\ llm = [state |-> "none"]
    /\ parse = [done |-> FALSE]

\* No request is being handled (the specifications of single operations).
NoPasses ==
    /\ monitored_chats = << >>
    /\ envProvider = "unset"
    /\ pc = [p \in {"p1", "p2"} |-> "idle"]
    /\ req = [p \in {"p1", "p2"} |-> [kind |-> "none"]]
    /\ loc = [p \in {"p1", "p2"} |-> [set |-> FALSE]]
    /\ resp = [p \in {"p1", "p2"} |-> [sent |-> FALSE]]
    /\ hist = [p \in {"p1", "p2"} |->
                 [queried |-> FALSE, inRange |-> 0, inserted |-> 0,
                  llmCalls |-> 0, llmOutcome |-> "none", summariesAdded |-> 0,
                  saveErrors |-> 0]]

\* ------------------------------------------------------------------------
\* lib/db.ts
\* ------------------------------------------------------------------------
HasMessageId(rows, id) == \E i \in 1..Len(rows) : rows[i].messageId = id

\* saveMessage whose INSERT has no ON CONFLICT clause: the UNIQUE constraint
\* aborts the statement and the catch block rethrows.
saveMessageNoConflictClause(rows, last, message) ==
    IF HasMessageId(rows, message.messageId)
    THEN [rows |-> rows, last |-> last, result |-> 0, threw |-> TRUE]
    ELSE [rows |-> Append(rows,
                     [messageId |-> message.messageId,
                      chatId    |-> message.chatId,
                      author    |-> OrNull(message.author),
                      content   |-> OrNull(message.content),
                      createdAt |-> IF message.createdAt.isDate
                                    THEN toISOString(message.createdAt.t)
                                    ELSE message.createdAt.str]),
          last |-> Len(rows) + 1, result |-> Len(rows) + 1, threw |-> FALSE]

\* saveMessage whose statement is INSERT OR REPLACE: a conflicting row is
\* replaced by the new values.
saveMessageOrReplace(rows, last, message) ==
    LET row == [messageId |-> message.messageId,
                chatId    |-> message.chatId,
                author    |-> OrNull(message.author),
                content   |-> OrNull(message.content),
                createdAt |-> IF message.createdAt.isDate
                              THEN toISOString(message.createdAt.t)
                              ELSE message.createdAt.str]
    IN IF HasMessageId(rows, message.messageId)
       THEN [rows |-> [i \in 1..Len(rows) |->
                         IF rows[i].messageId = message.messageId THEN row ELSE rows[i]],
             last |-> last, result |-> last, threw |-> FALSE]
       ELSE [rows |-> Append(rows, row),
             last |-> Len(rows) + 1, result |-> Len(rows) + 1, threw |-> FALSE]

\* saveMessage(db, message): INSERT ... ON CONFLICT(message_id) DO NOTHING,
\* then return result.lastInsertRowid.  rows is the table, last the
\* connection's last-insert rowid before the call.  A skipped insert leaves
\* the connection's last-insert rowid as it was, and that is what is returned.
saveMessage(rows, last, message) ==
    IF HasMessageId(rows, message.messageId)
    THEN [rows |-> rows, last |-> last, result |-> last, threw |-> FALSE]
    ELSE [rows |-> Append(rows,
                     [messageId |-> message.messageId,
                      chatId    |-> message.chatId,
                      author    |-> OrNull(message.author),
                      content   |-> OrNull(message.content),
                      createdAt |-> IF message.createdAt.isDate
                                    THEN toISOString(message.createdAt.t)
                                    ELSE message.createdAt.str]),
          last |-> Len(rows) + 1, result |-> Len(rows) + 1, threw |-> FALSE]

\* ORDER BY created_at ASC: insertion of one row into an ordered list, behind
\* the rows that do not sort after it (ties stay in rowid order).
RECURSIVE InsertByCreatedAt(_, _)
InsertByCreatedAt(sorted, row) ==
    IF sorted = << >> THEN <<row>>
    ELSE IF IsoLess(row.createdAt, Head(sorted).createdAt)
         THEN <<row>> \o sorted
         ELSE <<Head(sorted)>> \o InsertByCreatedAt(Tail(sorted), row)

RECURSIVE OrderByCreatedAt(_)
OrderByCreatedAt(rows) ==
    IF rows = << >> THEN << >>
    ELSE InsertByCreatedAt(OrderByCreatedAt(SubSeq(rows, 1, Len(rows) - 1)),
                           rows[Len(rows)])

\* The range query comparing the stored timestamp with the two boundary
\* instants instead of comparing calendar days.
getMessagesByDateRangeInstant(rows, chatId, startDate, endDate) ==
    OrderByCreatedAt(SelectSeq(rows, LAMBDA r :
        /\ r.chatId = chatId
        /\ r.createdAt.t >= startDate
        /\ r.createdAt.t <= endDate))

\* getMessagesByDateRange(db, chatId, startDate, endDate): startDate and
\* endDate are Date objects (instants).
getMessagesByDateRange(rows, chatId, startDate, endDate) ==
    OrderByCreatedAt(SelectSeq(rows, LAMBDA r :
        /\ r.chatId = chatId
        /\ DateOf(r.createdAt) >= DateOf(toISOString(startDate))
        /\ DateOf(r.createdAt) <= DateOf(toISOString(endDate))))

\* getMessages(db, chatId, since?): the cached messages of a chat, those with
\* created_at > since.toISOString() when since is given, ORDER BY created_at.
getMessages(rows, chatId, since) ==
    OrderByCreatedAt(SelectSeq(rows, LAMBDA r :
        /\ r.chatId = chatId
        /\ (since.given => IsoLess(toISOString(since.t), r.createdAt))))

\* getMonitoredChat(db, chatId): the row of the chat, active or not, or NULL.
NoRow == [null |-> TRUE]

getMonitoredChat(rows, chatId) ==
    IF \E i \in 1..Len(rows) : rows[i].chatId = chatId
    THEN rows[CHOOSE i \in 1..Len(rows) : rows[i].chatId = chatId]
    ELSE NoRow

\* The seconds CURRENT_TIMESTAMP can read when the next row is saved: the
\* clock has a resolution of one second and does not run backwards.
Seconds == {0, 1}

NowAfter(rows) ==
    {t \in Seconds : rows = << >> \/ t >= rows[Len(rows)].generatedAt}

\* saveSummary as an upsert keyed by conversation and period.
saveSummaryUpsert(rows, last, summary, now) ==
    LET hit == {i \in 1..Len(rows) :
                   /\ rows[i].chatId = summary.chatId
                   /\ rows[i].periodStart = toISOString(summary.periodStart)
                   /\ rows[i].periodEnd = toISOString(summary.periodEnd)}
        row == [chatId      |-> summary.chatId,
                periodStart |-> toISOString(summary.periodStart),
                periodEnd   |-> toISOString(summary.periodEnd),
                summaryText |-> TextOrNull(summary.summaryText),
                actionItems |-> summary.actionItems,
                generatedAt |-> now]
    IN IF hit # {}
       THEN LET i == CHOOSE j \in hit : TRUE
            IN [rows |-> [rows EXCEPT ![i] = row], last |-> last,
                result |-> i, threw |-> FALSE]
       ELSE [rows |-> Append(rows, row), last |-> Len(rows) + 1,
             result |-> Len(rows) + 1, threw |-> FALSE]

\* saveSummary(db, summary): plain INSERT; periodStart and periodEnd are Date
\* objects and are stored as full timestamps.  actionItems is the JSON text
\* of the parsed sections, which is never the empty string.
saveSummary(rows, last, summary, now) ==
    [rows |-> Append(rows,
                [chatId      |-> summary.chatId,
                 periodStart |-> toISOString(summary.periodStart),
                 periodEnd   |-> toISOString(summary.periodEnd),
                 summaryText |-> TextOrNull(summary.summaryText),
                 actionItems |-> summary.actionItems,
                 generatedAt |-> now]),
     last |-> Len(rows) + 1, result |-> Len(rows) + 1, threw |-> FALSE]

\* ------------------------------------------------------------------------
\* lib/microsoft-graph.ts
\* ------------------------------------------------------------------------
Procs == {"p1", "p2"}

\* Messages as the Graph service returns them.  from.user.displayName and
\* body.content are optional ("" stands for an absent one).
GraphMessage(id, author, content, created, modified) ==
    [id |-> id, author |-> author, content |-> content,
     createdDateTime |-> toISOString(created),
     lastModifiedDateTime |-> toISOString(modified)]

GraphMsgs ==
    {GraphMessage("m1", "Alice", "hello", 0, 0),
     GraphMessage("m1", "Alice", "edited", 0, 1),
     GraphMessage("m2", "", "hello", TicksPerDay, TicksPerDay)}

RECURSIVE SeqsOfLen(_, _)
SeqsOfLen(S, n) ==
    IF n = 0 THEN {<< >>}
    ELSE {Append(q, x) : q \in SeqsOfLen(S, n - 1), x \in S}

SeqsUpTo(S, n) == UNION {SeqsOfLen(S, k) : k \in 0..n}

\* A chain of pages: every page but the last carries an @odata.nextLink.
Pages == {<< >>} \cup {<<m>> : m \in GraphMsgs}
         \cup {<<GraphMessage("m1", "Alice", "hello", 0, 0),
                  GraphMessage("m2", "", "hello", TicksPerDay, TicksPerDay)>>}
Chains == SeqsUpTo(Pages, MaxPages) \ {<< >>}

\* What client.api(url).get() rejects with: statusCode and code are both
\* optional (0 stands for an absent one).
GraphErrors == [statusCode : {0, 400, 401, 403, 404, 429, 500, 503}, code : {0}]
               \cup {[statusCode |-> 0, code |-> 503]}

maxAttempts == 3

NoFetch == [state |-> "none"]

\* The canned messages of mock mode for a chat (lib/mock-data.ts).
getMockMessages(chatId) ==
    IF chatId = "c1"
    THEN <<GraphMessage("m1", "Alice", "hello", 0, 0),
           GraphMessage("m2", "", "hello", TicksPerDay, TicksPerDay)>>
    ELSE << >>

\* The  since  argument is optional: [given |-> FALSE] or a Date.
NoSince == [given |-> FALSE]
SinceInputs == {NoSince} \cup {[given |-> TRUE, t |-> t] : t \in {0}}

\* The page the service returns for a url: the url names the chat, the
\* $filter (lastModifiedDateTime gt since) and the position in the chain.
PageValue(chatId, since, url) ==
    SelectSeq(remote[chatId][url], LAMBDA m :
        ~since.given \/ m.lastModifiedDateTime.t > since.t)

\* line 207: const statusCode = error.statusCode || error.code
StatusOf(error) == IF error.statusCode # 0 THEN error.statusCode ELSE error.code

\* A retry policy that treats every client or server error status as retriable.
isRetriableAnyStatus(error) == StatusOf(error) >= 400

\* line 208
isRetriable(error) == StatusOf(error) \in {429, 500, 503}

\* A backoff that waits the same second before every retry.
backoffDelayFlat(attempt) == 1000

\* line 216: Math.pow(2, attempt) * 1000
backoffDelay(attempt) == (2 ^ attempt) * 1000

GraphAPIError(lastError) ==
    [name |-> "GraphAPIError", code |-> "GRAPH_API_ERROR", statusCode |-> 502,
     message |-> "Failed after multiple retry attempts",
     details |-> [originalError |-> lastError, attempts |-> maxAttempts]]

\* getChatMessages(chatId, since) up to its first await.
getChatMessages(chatId, since) ==
    IF mockMode
    THEN [state |-> "resolved", chatId |-> chatId, since |-> since,
          result |-> SelectSeq(getMockMessages(chatId), LAMBDA m :
                        ~since.given \/ m.createdDateTime.t > since.t),
          gets |-> 0, runs |-> 0, sleeps |-> << >>, failures |-> << >>]
    ELSE [state |-> "get", chatId |-> chatId, since |-> since,
          attempt |-> 0, url |-> 1, msgs |-> << >>,
          gets |-> 1, runs |-> 1, sleeps |-> << >>, failures |-> << >>]

\* A page request that restarts the chain without clearing what the failed
\* attempt had collected.
FetchRestartKeepingMessages(f) ==
    [f EXCEPT !.state = "get", !.attempt = f.attempt + 1, !.url = 1,
              !.gets = f.gets + 1, !.runs = f.runs + 1]

\* The next iteration of the retry loop: fn() starts again with an empty list
\* at the first page.
FetchRestart(f) ==
    [f EXCEPT !.state = "get", !.attempt = f.attempt + 1, !.url = 1,
              !.msgs = << >>, !.gets = f.gets + 1, !.runs = f.runs + 1]

\* A pagination loop that stops after the first page.
FetchPageFirstOnly(f, value, hasNext) ==
    [state |-> "resolved", chatId |-> f.chatId, since |-> f.since,
     result |-> f.msgs \o value,
     gets |-> f.gets, runs |-> f.runs, sleeps |-> f.sleeps,
     failures |-> f.failures]

\* lines 180-186: one page arrives; push its records, follow the next link or
\* return the collected list.
FetchPage(f, value, hasNext) ==
    IF hasNext
    THEN [f EXCEPT !.msgs = f.msgs \o value, !.url = f.url + 1,
                   !.gets = f.gets + 1]
    ELSE [state |-> "resolved", chatId |-> f.chatId, since |-> f.since,
          result |-> f.msgs \o value,
          gets |-> f.gets, runs |-> f.runs, sleeps |-> f.sleeps,
          failures |-> f.failures]

\* A retry loop without a budget: every retriable failure is followed by a
\* sleep and another attempt.
FetchFailureNoBudget(f, error) ==
    IF ~isRetriable(error)
    THEN [state |-> "rejected", chatId |-> f.chatId, since |-> f.since,
          error |-> GraphAPIError(error),
          gets |-> f.gets, runs |-> f.runs, sleeps |-> f.sleeps,
          failures |-> Append(f.failures, error)]
    ELSE [f EXCEPT !.state = "sleep",
                   !.sleeps = Append(f.sleeps, backoffDelay(f.attempt)),
                   !.failures = Append(f.failures, error)]

\* lines 203-228: a page request fails with  error.
FetchFailure(f, error) ==
    IF ~isRetriable(error) \/ f.attempt = maxAttempts - 1
    THEN [state |-> "rejected", chatId |-> f.chatId, since |-> f.since,
          error |-> GraphAPIError(error),
          gets |-> f.gets, runs |-> f.runs, sleeps |-> f.sleeps,
          failures |-> Append(f.failures, error)]
    ELSE [f EXCEPT !.state = "sleep",
                   !.sleeps = Append(f.sleeps, backoffDelay(f.attempt)),
                   !.failures = Append(f.failures, error)]

\* client.api(url).get() resolves.
GraphGetOk(p) ==
    /\ fetch[p].state = "get"
    /\ fetch' = [fetch EXCEPT ![p] =
          FetchPage(fetch[p],
                    PageValue(fetch[p].chatId, fetch[p].since, fetch[p].url),
                    fetch[p].url < Len(remote[fetch[p].chatId]))]

\* client.api(url).get() rejects.
GraphGetFail(p, errors) ==
    /\ fetch[p].state = "get"
    /\ \E e \in errors :
          fetch' = [fetch EXCEPT ![p] = FetchFailure(fetch[p], e)]

\* The backoff timer fires.
SleepDone(p) ==
    /\ fetch[p].state = "sleep"
    /\ fetch' = [fetch EXCEPT ![p] = FetchRestart(fetch[p])]

\* ------------------------------------------------------------------------
\* lib/claude.ts: parseSummaryResponse of the two providers
\* ------------------------------------------------------------------------
\* A text is a sequence of tokens: "NL" (newline), "SP" (other white space),
\* "**", ":", one of the five section labels in any letter case, or any other
\* string (a run of ordinary characters).  Adjacent tokens are adjacent in
\* the text.
Labels == <<"Overview", "Key Decisions", "Action Items", "Blockers", "Resources">>

IsSpace(tok) == tok \in {"NL", "SP"}

TokAt(text, i) == IF i \in 1..Len(text) THEN text[i] ELSE "EOT"

\* \s* : the first position at or after i that holds no white space.
RECURSIVE SkipSpace(_, _)
SkipSpace(text, i) ==
    IF IsSpace(TokAt(text, i)) THEN SkipSpace(text, i + 1) ELSE i

\* The position behind  Label:?  (plain) or  \*\*Label:?\*\*  (bold) when the
\* pattern matches at position i, and 0 when it does not.
HeadingEnd(text, i, k, bold) ==
    IF bold
    THEN IF TokAt(text, i) = "**" /\ TokAt(text, i + 1) = Labels[k]
         THEN IF TokAt(text, i + 2) = ":" /\ TokAt(text, i + 3) = "**" THEN i + 4
              ELSE IF TokAt(text, i + 2) = "**" THEN i + 3
              ELSE 0
         ELSE 0
    ELSE IF TokAt(text, i) = Labels[k]
         THEN IF TokAt(text, i + 1) = ":" THEN i + 2 ELSE i + 1
         ELSE 0

\* The lookahead of section k at position e: the end of the text, or a
\* newline, white space and the label of a LATER section.
SectionStop(text, e, k, bold) ==
    \/ e = Len(text) + 1
    \/ /\ TokAt(text, e) = "NL"
       /\ LET j == SkipSpace(text, e + 1)
          IN \E n \in (k + 1)..5 :
                IF bold THEN TokAt(text, j) = "**" /\ TokAt(text, j + 1) = Labels[n]
                ELSE TokAt(text, j) = Labels[n]

\* String.prototype.trim
RECURSIVE TrimEnd(_)
TrimEnd(text) ==
    IF text # << >> /\ IsSpace(text[Len(text)])
    THEN TrimEnd(SubSeq(text, 1, Len(text) - 1)) ELSE text

Trim(text) ==
    LET t == TrimEnd(text)
    IN SubSeq(t, SkipSpace(t, 1), Len(t))

\* A section that falls back to the whole text when its pattern matches
\* nowhere.
SectionOrWholeText(text, k, bold) ==
    LET starts == {i \in 1..Len(text) : HeadingEnd(text, i, k, bold) # 0}
    IN IF starts = {} THEN Trim(text)
       ELSE LET i0 == CHOOSE i \in starts : \A j \in starts : i <= j
                c  == SkipSpace(text, HeadingEnd(text, i0, k, bold))
                e  == CHOOSE x \in c..(Len(text) + 1) :
                         /\ SectionStop(text, x, k, bold)
                         /\ \A y \in c..(x - 1) : ~SectionStop(text, y, k, bold)
            IN Trim(SubSeq(text, c, e - 1))

\* response.match(...) of section k and the trimmed capture group, "" when
\* the pattern matches nowhere.
Section(text, k, bold) ==
    LET starts == {i \in 1..Len(text) : HeadingEnd(text, i, k, bold) # 0}
    IN IF starts = {} THEN << >>
       ELSE LET i0 == CHOOSE i \in starts : \A j \in starts : i <= j
                c  == SkipSpace(text, HeadingEnd(text, i0, k, bold))
                e  == CHOOSE x \in c..(Len(text) + 1) :
                         /\ SectionStop(text, x, k, bold)
                         /\ \A y \in c..(x - 1) : ~SectionStop(text, y, k, bold)
            IN Trim(SubSeq(text, c, e - 1))

\* A parse that asks the factory again at the time of the parse, so that the
\* patterns are those of the provider the process-wide setting selects then.
parseSummaryResponseBySetting(name, text) ==
    [overview    |-> Section(text, 1, envProvider # "claude"),
     decisions   |-> Section(text, 2, envProvider # "claude"),
     actionItems |-> Section(text, 3, envProvider # "claude"),
     blockers    |-> Section(text, 4, envProvider # "claude"),
     resources   |-> Section(text, 5, envProvider # "claude")]

\* parseSummaryResponse of the provider named name: Claude's patterns are
\* plain, Ollama's require the ** markers.
parseSummaryResponse(name, text) ==
    [overview    |-> Section(text, 1, name = "Ollama"),
     decisions   |-> Section(text, 2, name = "Ollama"),
     actionItems |-> Section(text, 3, name = "Ollama"),
     blockers    |-> Section(text, 4, name = "Ollama"),
     resources   |-> Section(text, 5, name = "Ollama")]

\* A factory whose default case is the hosted provider.
getLLMProviderDefaultClaude(env) == IF env = "ollama" THEN "Ollama" ELSE "Claude"

\* lib/llm-provider.ts getLLMProvider: the provider that process.env.AI_PROVIDER
\* selects at the time of the call.
getLLMProvider(env) == IF env = "claude" THEN "Claude" ELSE "Ollama"

ProviderError(name) ==
    IF name = "Claude"
    THEN [name |-> "ClaudeAPIError", code |-> "CLAUDE_API_ERROR", statusCode |-> 503]
    ELSE [name |-> "OllamaError", code |-> "OLLAMA_ERROR", statusCode |-> 503]

\* ------------------------------------------------------------------------
\* One caller of getChatMessages, as the unit tests of the client are.
\* ------------------------------------------------------------------------
InitFetch ==
    /\ messages = << >>
    /\ summaries = << >>
    /\ lastInsertRowid = [c \in {"t", "p1", "p2"} |-> 0]
    /\ dbCall = NoCall
    /\ \E chain \in Chains :
          remote = [c \in ChatIds |-> IF c = "c1" THEN chain ELSE << << >> >>]
    /\ mockMode \in BOOLEAN
    /\ fetch = [p \in Procs |-> NoFetch]
    /\ NoPasses
    /\ NoLlmCalls

ClientCall ==
    /\ fetch["p1"].state = "none"
    /\ \E since \in SinceInputs :
          fetch' = [fetch EXCEPT !["p1"] = getChatMessages("c1", since)]
    /\ UNCHANGED <<dbVars, dbCall, llmVars, remote, mockMode, passVars>>

ClientGetOk == GraphGetOk("p1") /\ UNCHANGED <<dbVars, dbCall, llmVars, remote, mockMode, passVars>>
ClientGetFail == GraphGetFail("p1", GraphErrors) /\ UNCHANGED <<dbVars, dbCall, llmVars, remote, mockMode, passVars>>
ClientSleepDone == SleepDone("p1") /\ UNCHANGED <<dbVars, dbCall, llmVars, remote, mockMode, passVars>>

NextFetch == ClientCall \/ ClientGetOk \/ ClientGetFail \/ ClientSleepDone

SpecFetch == InitFetch /\ [][NextFetch]_vars

\* ------------------------------------------------------------------------
\* Properties of the Graph client
\* ------------------------------------------------------------------------
Started(f) == f.state # "none"

\* The failures after which the call went on to another attempt.
RetriedFailures(f) ==
    IF f.state = "rejected"
    THEN SubSeq(f.failures, 1, Len(f.failures) - 1)
    ELSE f.failures

AllFailed429(f) ==
    /\ f.failures # << >>
    /\ \A i \in 1..Len(f.failures) : f.failures[i].statusCode = 429

\* C4: a live getChatMessages whose every attempt fails with status 429 runs
\* exactly 3 attempts, sleeps 1s after the first failure and 2s after the
\* second, does not sleep after the third, and fails with GraphAPIError.
C4_RetryBound ==
    LET f == fetch["p1"]
    IN (Started(f) /\ AllFailed429(f)) =>
         /\ f.state = "rejected" =>
               /\ Len(f.failures) = 3
               /\ f.runs = 3
               /\ f.sleeps = <<1000, 2000>>
               /\ f.error.name = "GraphAPIError"
         /\ f.state = "sleep" =>
               /\ Len(f.failures) <= 2
               /\ f.runs = Len(f.failures)
               /\ f.sleeps = SubSeq(<<1000, 2000>>, 1, Len(f.failures))

C4_Witness ==
    LET f == fetch["p1"]
    IN /\ Started(f)
       /\ AllFailed429(f)
       /\ f.state = "rejected"
       /\ f.runs = 3

\* C5: a failed attempt is followed by another attempt only when the failure
\* carries status 429, 500 or 503; a first failure with any other status, or
\* with no status at all, ends the call after exactly one attempt, without a
\* backoff sleep, with GraphAPIError.
C5_RetryOnlyTransient ==
    LET f == fetch["p1"]
    IN Started(f) =>
         /\ \A i \in 1..Len(RetriedFailures(f)) :
               StatusOf(f.failures[i]) \in {429, 500, 503}
         /\ (f.failures # << >> /\ StatusOf(f.failures[1]) \notin {429, 500, 503}) =>
               /\ f.state = "rejected"
               /\ f.runs = 1
               /\ f.sleeps = << >>
               /\ f.error.name = "GraphAPIError"

C5_Witness ==
    LET f == fetch["p1"]
    IN /\ Started(f)
       /\ f.state = "rejected"
       /\ f.runs = 1
       /\ f.failures[1].statusCode = 400

\* The records of pages 1..n of a chat as the service returns them.
RECURSIVE ConcatPages(_, _, _)
ConcatPages(chatId, since, n) ==
    IF n = 0 THEN << >>
    ELSE ConcatPages(chatId, since, n - 1) \o PageValue(chatId, since, n)

\* C6: a successful live getChatMessages returns exactly the concatenation of
\* the records of all N pages of the chain, in page order.
C6_PaginationExhaustive ==
    LET f == fetch["p1"]
    IN (f.state = "resolved" /\ ~mockMode) =>
         f.result = ConcatPages(f.chatId, f.since, Len(remote[f.chatId]))

C6_Witness ==
    LET f == fetch["p1"]
    IN /\ f.state = "resolved"
       /\ ~mockMode
       /\ Len(remote[f.chatId]) = MaxPages
       /\ Len(f.result) >= 2
       /\ f.result[1] # f.result[2]
       /\ f.failures # << >>

\* ------------------------------------------------------------------------
\* Direct use of the cache operations on one connection ("t"), as the unit
\* tests of lib/db.ts do.
\* ------------------------------------------------------------------------
CreatedAtInputs ==
    {[isDate |-> TRUE, t |-> t] : t \in Instants}
    \cup {[isDate |-> FALSE, str |-> iso] : iso \in {i \in IsoStrings : i.t = 0}}

MessageInputs ==
    [messageId : MsgIds, chatId : ChatIds, author : {"Alice"},
     content : {"hello"}, createdAt : CreatedAtInputs]

InitDb ==
    /\ messages = << >>
    /\ summaries = << >>
    /\ lastInsertRowid = [c \in {"t", "p1", "p2"} |-> 0]
    /\ dbCall = NoCall
    /\ remote = [c \in ChatIds |-> << << >> >>]
    /\ mockMode = FALSE
    /\ fetch = [p \in Procs |-> NoFetch]
    /\ NoPasses
    /\ NoLlmCalls

DbSaveMessage ==
    \E m \in MessageInputs :
        LET r == saveMessage(messages, lastInsertRowid["t"], m)
        IN /\ messages' = r.rows
           /\ lastInsertRowid' = [lastInsertRowid EXCEPT !["t"] = r.last]
           /\ dbCall' = [op |-> "saveMessage", arg |-> m,
                         wasCached |-> HasMessageId(messages, m.messageId),
                         result |-> r.result, threw |-> r.threw]
           /\ UNCHANGED <<summaries, clientVars, passVars, llmVars>>

DbGetMessagesByDateRange ==
    \E c \in ChatIds, s \in Instants, e \in Instants :
        /\ dbCall' = [op |-> "getMessagesByDateRange", chatId |-> c,
                      startDate |-> s, endDate |-> e,
                      result |-> getMessagesByDateRange(messages, c, s, e)]
        /\ UNCHANGED <<dbVars, clientVars, passVars, llmVars>>

DbGetMessages ==
    \E c \in ChatIds, since \in {NoSince} \cup {[given |-> TRUE, t |-> t] : t \in Instants} :
        /\ dbCall' = [op |-> "getMessages", chatId |-> c, since |-> since,
                      result |-> getMessages(messages, c, since)]
        /\ UNCHANGED <<dbVars, clientVars, passVars, llmVars>>

NextDb == DbSaveMessage \/ DbGetMessagesByDateRange \/ DbGetMessages

SpecDb == InitDb /\ [][NextDb]_vars

\* ------------------------------------------------------------------------
\* Properties of the cache operations
\* ------------------------------------------------------------------------
RowsOfId(id) == {i \in 1..Len(messages) : messages[i].messageId = id}

\* C1: after any sequence of saveMessage calls the cache holds at most one
\* row per remote message id, and a saveMessage call whose id is already
\* cached does not raise an error.
C1_IdempotentInsert ==
    /\ \A id \in MsgIds : Cardinality(RowsOfId(id)) <= 1
    /\ (dbCall.op = "saveMessage" /\ dbCall.wasCached) => ~dbCall.threw

C1_Witness ==
    /\ dbCall.op = "saveMessage"
    /\ dbCall.wasCached
    /\ Cardinality(RowsOfId(dbCall.arg.messageId)) = 1

\* C2: saveMessage reports whether a row was inserted: a call with an already
\* cached id reports no insertion (0, which no fresh insert returns) and a
\* call with a new id reports an insertion (a positive rowid).
C2_ReportsInsertion ==
    dbCall.op = "saveMessage" =>
        /\ dbCall.wasCached => dbCall.result = 0
        /\ ~dbCall.wasCached => dbCall.result > 0

\* C7: getMessagesByDateRange returns exactly the cached messages of the
\* conversation whose creation day d satisfies day(startDate) <= d <=
\* day(endDate), both boundaries included.
InRange(r, c, s, e) ==
    /\ r.chatId = c
    /\ s \div TicksPerDay <= r.createdAt.t \div TicksPerDay
    /\ r.createdAt.t \div TicksPerDay <= e \div TicksPerDay

C7_RangeInclusive ==
    dbCall.op = "getMessagesByDateRange" =>
        /\ {dbCall.result[i] : i \in 1..Len(dbCall.result)}
             = {messages[i] : i \in {j \in 1..Len(messages) :
                   InRange(messages[j], dbCall.chatId, dbCall.startDate, dbCall.endDate)}}
        /\ Len(dbCall.result) = Cardinality({j \in 1..Len(messages) :
                   InRange(messages[j], dbCall.chatId, dbCall.startDate, dbCall.endDate)})

\* A query over one day that returns both a message at 00:00:00 of that day
\* and one at 23:59:59 of it.
C7_Witness ==
    /\ dbCall.op = "getMessagesByDateRange"
    /\ dbCall.startDate \div TicksPerDay = dbCall.endDate \div TicksPerDay
    /\ \E i, j \in 1..Len(dbCall.result) :
          /\ dbCall.result[i].createdAt.t = dbCall.startDate - (dbCall.startDate % TicksPerDay)
          /\ dbCall.result[j].createdAt.t = dbCall.result[i].createdAt.t + TicksPerDay - 1

\* ------------------------------------------------------------------------
\* app/api/messages/route.ts: GET /api/messages (sync pass) and
\* POST /api/summarize (summarize pass)
\* ------------------------------------------------------------------------
Ok(data) == [sent |-> TRUE, success |-> TRUE, status |-> 200, data |-> data]
Err(code, status) == [sent |-> TRUE, success |-> FALSE, status |-> status, code |-> code]

\* messageFetchSchema.parse: chatId is a non-empty string, since an ISO
\* datetime when present.
messageFetchSchemaOk(q) == q.chatId # "" /\ "malformed" \notin DOMAIN q.since

\* summaryRequestSchema.parse: chatId non-empty, both dates match
\* /^\d{4}-\d{2}-\d{2}$/ (which "2024-13-45" does too).
summaryRequestSchemaOk(b) ==
    b.chatId # "" /\ b.startDate.fmt # "malformed" /\ b.endDate.fmt # "malformed"

\* new Date("YYYY-MM-DD"): midnight UTC of that day, or Invalid Date.
InvalidDate == [valid |-> FALSE]
NewDate(str) == IF str.fmt = "day" THEN [valid |-> TRUE, t |-> str.day * TicksPerDay]
                ELSE InvalidDate

\* process.env.AI_PROVIDER = originalProvider: assigning undefined to an
\* environment variable stores the string "undefined".
AssignEnv(v) == IF v = "unset" THEN "undefined" ELSE v

\* lines 46-60: the save loop of GET.  savedCount is incremented after every
\* saveMessage call that does not throw.
RECURSIVE SaveFetched(_, _, _, _)
SaveFetched(rows, last, chatId, msgs) ==
    IF msgs = << >> THEN [rows |-> rows, last |-> last, savedCount |-> 0]
    ELSE LET r == saveMessage(rows, last,
                     [messageId |-> Head(msgs).id, chatId |-> chatId,
                      author |-> Head(msgs).author, content |-> Head(msgs).content,
                      createdAt |-> [isDate |-> FALSE, str |-> Head(msgs).createdDateTime]])
             rest == SaveFetched(r.rows, r.last, chatId, Tail(msgs))
         IN [rows |-> rest.rows, last |-> rest.last,
             savedCount |-> rest.savedCount + (IF r.threw THEN 0 ELSE 1)]

\* The guard of POST never taken.
NoMessagesGuardOff(msgs) == FALSE

\* line 128: if (messages.length === 0)
NoMessagesGuard(msgs) == Len(msgs) = 0

\* A request arrives and the handler awaits requireAuth().
Request(p, requests) ==
    /\ pc[p] = "idle"
    /\ \E r \in requests : req' = [req EXCEPT ![p] = r]
    /\ pc' = [pc EXCEPT ![p] = "auth"]
    /\ UNCHANGED <<dbVars, dbCall, llmVars, clientVars, monitored_chats, envProvider, loc, resp, hist>>

\* requireAuth() throws AuthenticationError; the catch block answers 401.
AuthFail(p) ==
    /\ pc[p] = "auth"
    /\ pc' = [pc EXCEPT ![p] = "done"]
    /\ resp' = [resp EXCEPT ![p] = Err("AUTHENTICATION_ERROR", 401)]
    /\ UNCHANGED <<dbVars, dbCall, llmVars, clientVars, monitored_chats, envProvider, req, loc, hist>>

\* GET lines 13-43: validation, the monitored-chat lookup and the call of
\* getChatMessages, up to its await.
GetHandle(p) ==
    /\ pc[p] = "auth"
    /\ req[p].kind = "GET"
    /\ LET chat == getMonitoredChat(monitored_chats, req[p].chatId)
       IN IF ~messageFetchSchemaOk(req[p])
          THEN /\ pc' = [pc EXCEPT ![p] = "done"]
               /\ resp' = [resp EXCEPT ![p] = Err("VALIDATION_ERROR", 400)]
               /\ UNCHANGED <<fetch, lastInsertRowid>>
          ELSE IF chat = NoRow
          THEN /\ pc' = [pc EXCEPT ![p] = "done"]
               /\ resp' = [resp EXCEPT ![p] = Err("NOT_FOUND", 404)]
               /\ lastInsertRowid' = [lastInsertRowid EXCEPT ![p] = 0]
               /\ UNCHANGED fetch
          ELSE /\ pc' = [pc EXCEPT ![p] = "fetch"]
               /\ fetch' = [fetch EXCEPT ![p] = getChatMessages(chat.chatId, req[p].since)]
               /\ lastInsertRowid' = [lastInsertRowid EXCEPT ![p] = 0]
               /\ UNCHANGED resp
    /\ UNCHANGED <<messages, summaries, dbCall, llmVars, remote, mockMode,
                   monitored_chats, envProvider, req, loc, hist>>

GetFetchOk(p) ==
    /\ pc[p] = "fetch"
    /\ GraphGetOk(p)
    /\ UNCHANGED <<dbVars, dbCall, llmVars, remote, mockMode, passVars>>

GetFetchFail(p, errors) ==
    /\ pc[p] = "fetch"
    /\ GraphGetFail(p, errors)
    /\ UNCHANGED <<dbVars, dbCall, llmVars, remote, mockMode, passVars>>

GetSleepDone(p) ==
    /\ pc[p] = "fetch"
    /\ SleepDone(p)
    /\ UNCHANGED <<dbVars, dbCall, llmVars, remote, mockMode, passVars>>

\* GET lines 45-72: getChatMessages has resolved; save every fetched message,
\* read the chat back and answer.
GetCache(p) ==
    /\ pc[p] = "fetch"
    /\ fetch[p].state = "resolved"
    /\ LET r == SaveFetched(messages, lastInsertRowid[p], fetch[p].chatId, fetch[p].result)
       IN /\ messages' = r.rows
          /\ lastInsertRowid' = [lastInsertRowid EXCEPT ![p] = r.last]
          /\ resp' = [resp EXCEPT ![p] =
                Ok([messages |-> getMessages(r.rows, req[p].chatId, NoSince),
                    newMessageCount |-> r.savedCount])]
          /\ hist' = [hist EXCEPT ![p].inserted = Len(r.rows) - Len(messages)]
    /\ pc' = [pc EXCEPT ![p] = "done"]
    /\ UNCHANGED <<summaries, dbCall, llmVars, clientVars, monitored_chats, envProvider, req, loc>>

\* GET lines 73-98: getChatMessages has rejected.
GetReject(p) ==
    /\ pc[p] = "fetch"
    /\ fetch[p].state = "rejected"
    /\ pc' = [pc EXCEPT ![p] = "done"]
    /\ resp' = [resp EXCEPT ![p] = Err(fetch[p].error.code, fetch[p].error.statusCode)]
    /\ UNCHANGED <<dbVars, dbCall, llmVars, clientVars, monitored_chats, envProvider, req, loc, hist>>

\* The cached messages of a conversation whose creation day lies within the
\* days of the two boundary instants.
CachedInRange(c, s, e) ==
    {j \in 1..Len(messages) :
        /\ messages[j].chatId = c
        /\ s \div TicksPerDay <= messages[j].createdAt.t \div TicksPerDay
        /\ messages[j].createdAt.t \div TicksPerDay <= e \div TicksPerDay}

\* A conversion that hands on only the rows whose message a fetch of this
\* process has just returned.
graphMessagesOfFetchedBatch(msgs) ==
    LET batch == SelectSeq(msgs, LAMBDA m :
                    \E q \in Procs :
                       /\ fetch[q].state = "resolved"
                       /\ \E k \in 1..Len(fetch[q].result) :
                             fetch[q].result[k].id = m.messageId)
    IN [i \in 1..Len(batch) |->
          [id |-> batch[i].messageId, author |-> batch[i].author,
           content |-> batch[i].content, createdDateTime |-> batch[i].createdAt]]

\* POST lines 142-147: the rows of the range query in Graph message format,
\* the list handed to generateSummary.
graphMessages(msgs) ==
    [i \in 1..Len(msgs) |->
       [id |-> msgs[i].messageId, author |-> msgs[i].author,
        content |-> msgs[i].content, createdDateTime |-> msgs[i].createdAt]]

\* POST lines 114-159: validation, the range query, the empty guard, the
\* provider override and the call of generateSummary, up to its await.
PostHandle(p) ==
    /\ pc[p] = "auth"
    /\ req[p].kind = "POST"
    /\ LET provider  == IF req[p].provider # "absent" THEN req[p].provider
                        ELSE IF envProvider # "unset" THEN envProvider
                        ELSE "ollama"
           startDate == NewDate(req[p].startDate)
           endDate   == NewDate(req[p].endDate)
           msgs      == getMessagesByDateRange(messages, req[p].chatId, startDate.t, endDate.t)
       IN IF ~summaryRequestSchemaOk(req[p])
          THEN /\ pc' = [pc EXCEPT ![p] = "done"]
               /\ resp' = [resp EXCEPT ![p] = Err("VALIDATION_ERROR", 400)]
               /\ UNCHANGED <<envProvider, loc, hist, lastInsertRowid>>
          ELSE IF startDate = InvalidDate \/ endDate = InvalidDate
          THEN \* toISOString() throws RangeError inside getMessagesByDateRange
               /\ pc' = [pc EXCEPT ![p] = "done"]
               /\ resp' = [resp EXCEPT ![p] = Err("DATABASE_ERROR", 500)]
               /\ lastInsertRowid' = [lastInsertRowid EXCEPT ![p] = 0]
               /\ UNCHANGED <<envProvider, loc, hist>>
          ELSE IF NoMessagesGuard(msgs)
          THEN /\ pc' = [pc EXCEPT ![p] = "done"]
               /\ resp' = [resp EXCEPT ![p] = Err("NO_MESSAGES", 404)]
               /\ lastInsertRowid' = [lastInsertRowid EXCEPT ![p] = 0]
               /\ hist' = [hist EXCEPT ![p].queried = TRUE,
                              ![p].inRange = Cardinality(CachedInRange(
                                   req[p].chatId, startDate.t, endDate.t))]
               /\ UNCHANGED <<envProvider, loc>>
          ELSE /\ pc' = [pc EXCEPT ![p] = "llm"]
               /\ envProvider' = provider
               /\ loc' = [loc EXCEPT ![p] =
                     [set |-> TRUE, provider |-> provider,
                      originalProvider |-> envProvider,
                      llmProvider |-> getLLMProvider(provider),
                      messages |-> msgs,
                      graphMessages |-> graphMessages(msgs),
                      startDate |-> startDate.t, endDate |-> endDate.t]]
               /\ lastInsertRowid' = [lastInsertRowid EXCEPT ![p] = 0]
               /\ hist' = [hist EXCEPT ![p].queried = TRUE,
                              ![p].inRange = Cardinality(CachedInRange(
                                   req[p].chatId, startDate.t, endDate.t)),
                              ![p].llmCalls = hist[p].llmCalls + 1]
               /\ UNCHANGED resp
    /\ UNCHANGED <<messages, summaries, dbCall, llmVars, clientVars, monitored_chats, req>>

\* POST lines 159-188: generateSummary resolves with the raw text; parse it,
\* restore the environment, append the summary and answer.
LlmReturn(p, texts) ==
    /\ pc[p] = "llm"
    /\ \E text \in texts, now \in NowAfter(summaries) :
         LET parsed == parseSummaryResponse(loc[p].llmProvider, text)
             r == saveSummary(summaries, lastInsertRowid[p],
                     [chatId |-> req[p].chatId,
                      periodStart |-> loc[p].startDate,
                      periodEnd |-> loc[p].endDate,
                      summaryText |-> text,
                      actionItems |-> [json |-> parsed]], now)
         IN /\ summaries' = r.rows
            /\ lastInsertRowid' = [lastInsertRowid EXCEPT ![p] = r.last]
            /\ resp' = [resp EXCEPT ![p] =
                  Ok([id |-> r.result, summary |-> text, parsed |-> parsed,
                      messageCount |-> Len(loc[p].messages)])]
            /\ hist' = [hist EXCEPT ![p].llmOutcome = "text",
                           ![p].summariesAdded = Len(r.rows) - Len(summaries)]
    /\ envProvider' = AssignEnv(loc[p].originalProvider)
    /\ pc' = [pc EXCEPT ![p] = "done"]
    /\ UNCHANGED <<messages, dbCall, llmVars, clientVars, monitored_chats, req, loc>>

\* POST lines 189-214: generateSummary rejects with the provider's error.
LlmThrow(p) ==
    /\ pc[p] = "llm"
    /\ pc' = [pc EXCEPT ![p] = "done"]
    /\ resp' = [resp EXCEPT ![p] =
          Err(ProviderError(loc[p].llmProvider).code,
              ProviderError(loc[p].llmProvider).statusCode)]
    /\ hist' = [hist EXCEPT ![p].llmOutcome = "error"]
    /\ UNCHANGED <<dbVars, dbCall, llmVars, clientVars, monitored_chats, envProvider, req, loc>>

\* ------------------------------------------------------------------------
\* Two requests handled concurrently by one server process
\* ------------------------------------------------------------------------
DateStrings == {[fmt |-> "day", day |-> d] : d \in Days}
               \cup {[fmt |-> "malformed"], [fmt |-> "nodate"]}

GetRequests ==
    [kind : {"GET"}, chatId : {"c1", "c2", ""},
     since : SinceInputs \cup {[given |-> TRUE, malformed |-> TRUE]}]

PostRequests ==
    [kind : {"POST"}, chatId : {"c1", "c2", ""},
     startDate : DateStrings, endDate : DateStrings,
     provider : {"absent", "claude"}]

Requests == GetRequests \cup PostRequests

\* The failures of a page request during a pass.
PassErrors == {[statusCode |-> 429, code |-> 0], [statusCode |-> 404, code |-> 0]}

\* The raw texts a provider answers with.
RawTexts ==
    {<< >>,
     <<"**", "Overview", ":", "**", "SP", "fine">>,
     <<"Overview", ":", "SP", "fine", "NL", "Action Items", ":", "SP", "@Bob">>}

\* The chains of pages of chat c1 during the two passes.
PassChains ==
    {<< <<GraphMessage("m1", "Alice", "hello", 0, 0)>>,
        <<GraphMessage("m2", "", "hello", TicksPerDay, TicksPerDay)>> >>,
     << <<GraphMessage("m1", "Alice", "edited", 0, 1),
          GraphMessage("m1", "Alice", "hello", 0, 0)>> >>}

\* The cache at the time the two requests arrive: empty, or holding m1 from
\* an earlier sync pass.
InitialCaches ==
    {<< >>,
     <<[messageId |-> "m1", chatId |-> "c1", author |-> "Alice",
        content |-> "hello", createdAt |-> toISOString(0)]>>}

Init ==
    /\ messages \in InitialCaches
    /\ summaries = << >>
    /\ lastInsertRowid = [c \in {"t", "p1", "p2"} |-> 0]
    /\ dbCall = NoCall
    /\ \E chain \in PassChains :
          remote = [c \in ChatIds |-> IF c = "c1" THEN chain ELSE << << >> >>]
    /\ mockMode = FALSE
    /\ fetch = [p \in Procs |-> NoFetch]
    /\ monitored_chats = <<[chatId |-> "c1", chatName |-> "Project Alpha",
                            chatType |-> "group", status |-> "active", isActive |-> 1]>>
    /\ envProvider \in {"unset", "claude"}
    /\ pc = [p \in Procs |-> "idle"]
    /\ req = [p \in Procs |-> [kind |-> "none"]]
    /\ loc = [p \in Procs |-> [set |-> FALSE]]
    /\ resp = [p \in Procs |-> [sent |-> FALSE]]
    /\ hist = [p \in Procs |->
                 [queried |-> FALSE, inRange |-> 0, inserted |-> 0,
                  llmCalls |-> 0, llmOutcome |-> "none", summariesAdded |-> 0,
                  saveErrors |-> 0]]
    /\ NoLlmCalls

Next ==
    \E p \in Procs :
        \/ Request(p, Requests)
        \/ AuthFail(p)
        \/ GetHandle(p)
        \/ GetFetchOk(p)
        \/ GetFetchFail(p, PassErrors)
        \/ GetSleepDone(p)
        \/ GetCache(p)
        \/ GetReject(p)
        \/ PostHandle(p)
        \/ LlmReturn(p, RawTexts)
        \/ LlmThrow(p)

Spec == Init /\ [][Next]_vars

\* ------------------------------------------------------------------------
\* Properties of the sync and summarize passes
\* ------------------------------------------------------------------------
GetSucceeded(p) ==
    /\ pc[p] = "done"
    /\ req[p].kind = "GET"
    /\ resp[p].sent
    /\ resp[p].success

Persisted(p) == pc[p] = "llm" /\ pc'[p] = "done" /\ hist'[p].llmOutcome = "text"

LlmFailed(p) == pc[p] = "llm" /\ pc'[p] = "done" /\ hist'[p].llmOutcome = "error"

\* C3: the newMessageCount a successful sync pass answers with equals the
\* number of rows the pass actually inserted into the cache; fetched messages
\* that were already cached, or that repeat within the batch, do not count.
C3_CountsInserts ==
    \A p \in Procs :
        GetSucceeded(p) => resp[p].data.newMessageCount = hist[p].inserted

\* C8: a summarize pass whose range query finds zero cached messages of the
\* conversation ends with NO_MESSAGES, has issued no model call and has
\* appended no summary row.
C8_EmptyRangeNoSummary ==
    \A p \in Procs :
        (hist[p].queried /\ hist[p].inRange = 0) =>
            /\ pc[p] = "done"
            /\ resp[p] = Err("NO_MESSAGES", 404)
            /\ hist[p].llmCalls = 0
            /\ hist[p].summariesAdded = 0

C8_Witness ==
    \E p \in Procs :
        /\ hist[p].queried
        /\ hist[p].inRange = 0
        /\ \E j \in 1..Len(messages) : messages[j].chatId = req[p].chatId
        /\ resp[p].sent

\* C9: summaries are append-only.  Every step keeps the existing summary rows
\* as they are; a pass that obtains raw text appends exactly one row; a pass
\* whose summarization call fails appends none; and nothing else adds a row.
C9_AppendOnly ==
    [][/\ Len(summaries') >= Len(summaries)
       /\ SubSeq(summaries', 1, Len(summaries)) = summaries
       /\ \A p \in Procs : Persisted(p) => Len(summaries') = Len(summaries) + 1
       /\ \A p \in Procs : LlmFailed(p) => summaries' = summaries
       /\ summaries' # summaries => \E p \in Procs : Persisted(p)]_vars

C9_Witness ==
    /\ Len(summaries) = 2
    /\ summaries[1].chatId = summaries[2].chatId
    /\ summaries[1].periodStart = summaries[2].periodStart
    /\ summaries[1].periodEnd = summaries[2].periodEnd
    /\ \A p \in Procs : pc[p] = "done" /\ hist[p].llmOutcome = "text"

\* C10: two concurrent passes never corrupt the cache.  No message id is
\* cached twice; after a successful sync pass every id it fetched is cached
\* exactly once; every step keeps the cached rows as they are, so a row keeps
\* the content of its first insert and none is lost; and a pass that reaches
\* the persist step adds exactly one summary row, whole, behind the rows
\* already there.
CachedCount(id) == Cardinality({i \in 1..Len(messages) : messages[i].messageId = id})

C10_NoCorruption ==
    /\ [](/\ \A id \in MsgIds : CachedCount(id) <= 1
          /\ \A p \in Procs : GetSucceeded(p) =>
                \A k \in 1..Len(fetch[p].result) :
                    CachedCount(fetch[p].result[k].id) = 1)
    /\ [][/\ Len(messages') >= Len(messages)
          /\ SubSeq(messages', 1, Len(messages)) = messages
          /\ \A p \in Procs : Persisted(p) =>
                /\ Len(summaries') = Len(summaries) + 1
                /\ SubSeq(summaries', 1, Len(summaries)) = summaries
                /\ [f \in DOMAIN summaries'[Len(summaries')] \ {"generatedAt"} |->
                        summaries'[Len(summaries')][f]] =
                      [chatId      |-> req[p].chatId,
                       periodStart |-> toISOString(loc[p].startDate),
                       periodEnd   |-> toISOString(loc[p].endDate),
                       summaryText |-> IF resp'[p].data.summary = << >>
                                       THEN [null |-> TRUE]
                                       ELSE [null |-> FALSE,
                                             text |-> resp'[p].data.summary],
                       actionItems |-> [json |-> resp'[p].data.parsed]]
                /\ summaries'[Len(summaries')].generatedAt \in Seconds]_vars

C10_Witness ==
    /\ GetSucceeded("p1")
    /\ GetSucceeded("p2")
    /\ fetch["p1"].gets > 0
    /\ fetch["p2"].gets > 0
    /\ \E k \in 1..Len(fetch["p1"].result) : \E l \in 1..Len(fetch["p2"].result) :
          fetch["p1"].result[k].id = fetch["p2"].result[l].id
    /\ hist["p1"].inserted + hist["p2"].inserted = Len(messages)
    /\ Len(messages) > 0

\* ------------------------------------------------------------------------
\* Direct calls of parseSummaryResponse, as the unit tests of the providers
\* make them
\* ------------------------------------------------------------------------
\* The three parsers of the source: lib/claude.ts of the hosted provider,
\* the self-hosted provider's with ** markers, and lib/ollama.ts without.
Parsers == {"Claude", "Ollama", "OllamaPlain"}

\* The pieces the input texts are made of: a heading in plain or bold form,
\* a newline, other white space, an @mention.
Segments ==
    {<<"Overview", ":">>, <<"**", "Overview", ":", "**">>,
     <<"Action Items", ":">>, <<"**", "Action Items", ":", "**">>,
     <<"Resources", ":">>, <<"**", "Resources", ":", "**">>,
     <<"NL">>, <<"SP">>, <<"@Bob">>}

RECURSIVE Flatten(_)
Flatten(segs) == IF segs = << >> THEN << >> ELSE Head(segs) \o Flatten(Tail(segs))

Texts == {Flatten(segs) : segs \in SeqsUpTo(Segments, MaxSegs)}

InitParse ==
    /\ messages = << >>
    /\ summaries = << >>
    /\ lastInsertRowid = [c \in {"t", "p1", "p2"} |-> 0]
    /\ dbCall = NoCall
    /\ remote = [c \in ChatIds |-> << << >> >>]
    /\ mockMode = FALSE
    /\ fetch = [p \in Procs |-> NoFetch]
    /\ NoPasses
    /\ llm = [state |-> "none"]
    /\ \E name \in Parsers, text \in Texts :
          parse = [done |-> FALSE, name |-> name, text |-> text]

ParseCall ==
    /\ ~parse.done
    /\ parse' = [done |-> TRUE, name |-> parse.name, text |-> parse.text,
                 result |-> parseSummaryResponse(parse.name, parse.text)]
    /\ UNCHANGED <<dbVars, dbCall, clientVars, passVars, llm>>

NextParse == ParseCall

SpecParse == InitParse /\ [][NextParse]_vars

\* ------------------------------------------------------------------------
\* Properties of parseSummaryResponse
\* ------------------------------------------------------------------------
Fields == <<"overview", "decisions", "actionItems", "blockers", "resources">>

Tokens == UNION {{seg[i] : i \in 1..Len(seg)} : seg \in Segments}

Bold(name) == name = "Ollama"

LabelAppears(text, k) == \E i \in 1..Len(text) : text[i] = Labels[k]

\* C11: parseSummaryResponse of every backend returns, for every text, a
\* record of exactly the five sections, each a string, and the empty string
\* for every section whose label does not appear in the text.
C11_ParseTotal ==
    parse.done =>
        /\ DOMAIN parse.result = {Fields[k] : k \in 1..5}
        /\ \A k \in 1..5 :
              /\ parse.result[Fields[k]] \in Seq(Tokens)
              /\ ~LabelAppears(parse.text, k) => parse.result[Fields[k]] = << >>

C11_Witness ==
    /\ parse.done
    /\ LabelAppears(parse.text, 3)
    /\ ~LabelAppears(parse.text, 1)
    /\ parse.result.actionItems # << >>
    /\ parse.result.overview = << >>

\* C12: for a text that is an "Overview:" heading followed by text without
\* any label, every backend's parser returns that text (trimmed) as the
\* overview and the empty string for the other four sections.
OnlyOverview(text) ==
    /\ Len(text) >= 3
    /\ text[1] = "Overview"
    /\ text[2] = ":"
    /\ \A i \in 3..Len(text) : text[i] \in {"NL", "SP", "@Bob"}
    /\ \E i \in 3..Len(text) : text[i] = "@Bob"

C12_OnlyOverview ==
    (parse.done /\ OnlyOverview(parse.text)) =>
        /\ parse.result.overview = Trim(SubSeq(parse.text, 3, Len(parse.text)))
        /\ \A k \in 2..5 : parse.result[Fields[k]] = << >>

\* C13: for every text and every section, the parsed content is the text
\* between the first heading of that section and the next heading of any of
\* the five sections behind it, or the end of the text, trimmed and
\* otherwise verbatim; a section without a heading is empty.
IsHeading(text, i, bold) == \E n \in 1..5 : HeadingEnd(text, i, n, bold) # 0

Between(text, k, bold) ==
    LET starts == {i \in 1..Len(text) : HeadingEnd(text, i, k, bold) # 0}
    IN IF starts = {} THEN << >>
       ELSE LET i0 == CHOOSE i \in starts : \A j \in starts : i <= j
                c  == HeadingEnd(text, i0, k, bold)
                e  == CHOOSE x \in c..(Len(text) + 1) :
                         /\ x = Len(text) + 1 \/ IsHeading(text, x, bold)
                         /\ \A y \in c..(x - 1) : ~IsHeading(text, y, bold)
            IN Trim(SubSeq(text, c, e - 1))

C13_BetweenLabels ==
    parse.done =>
        \A k \in 1..5 :
            parse.result[Fields[k]] = Between(parse.text, k, Bold(parse.name))

\* ------------------------------------------------------------------------
\* lib/claude.ts, lib/ollama.ts: generateSummary of the hosted and of the
\* self-hosted backend, called directly as the unit tests call it
\* ------------------------------------------------------------------------
\* The three generateSummary functions of the source: the hosted backend's,
\* the self-hosted provider's, and lib/ollama.ts.
Backends == {"Claude", "Ollama", "OllamaPlain"}

\* An error message is a sequence of words.
ToLowerCase(word) ==
    CASE word = "Timeout"    -> "timeout"
      [] word = "Connection" -> "connection"
      [] OTHER               -> word

\* message.includes(probe)
Includes(message, probe) == \E i \in 1..Len(message) : message[i] = probe

\* message.toLowerCase().includes(probe)
LowerIncludes(message, probe) ==
    \E i \in 1..Len(message) : ToLowerCase(message[i]) = probe

\* What client.messages.create rejects with: the SDK's status errors and
\* its connection error, which carries no status.
ClaudeFailures ==
    {[name |-> "Error", status |-> 429, statusCode |-> 0, message |-> <<"Rate", "limit", "exceeded">>],
     [name |-> "Error", status |-> 529, statusCode |-> 0, message |-> <<"Overloaded">>],
     [name |-> "Error", status |-> 0, statusCode |-> 500, message |-> <<"Internal", "server", "error">>],
     [name |-> "Error", status |-> 503, statusCode |-> 0, message |-> <<"Service", "unavailable">>],
     [name |-> "Error", status |-> 401, statusCode |-> 0, message |-> <<"Invalid", "API", "key">>],
     [name |-> "Error", status |-> 400, statusCode |-> 0, message |-> <<"Bad", "request">>],
     [name |-> "Error", status |-> 0, statusCode |-> 0, message |-> <<"Connection", "error.">>]}

\* What fetch rejects with.
FetchFailures ==
    {[name |-> "Error", message |-> <<"Timeout">>],
     [name |-> "AbortError", message |-> <<"Timeout">>],
     [name |-> "Error", message |-> <<"ECONNREFUSED">>],
     [name |-> "TypeError", message |-> <<"fetch", "failed">>]}

\* The responses fetch resolves with whose ok is false.
NotOkResponses ==
    {[ok |-> FALSE, status |-> 500, statusText |-> <<"Internal", "Server", "Error">>],
     [ok |-> FALSE, status |-> 400, statusText |-> <<"Bad", "Request">>],
     [ok |-> FALSE, status |-> 504, statusText |-> <<"Gateway", "Timeout">>]}

\* new OllamaError(`Ollama API returned ${response.status}: ${response.statusText}`)
NotOkError(response) ==
    [name |-> "OllamaError",
     message |-> <<"Ollama", "API", "returned", ToString(response.status), ":">>
                 \o response.statusText]

\* Every failure of one backend call, as the catch block receives it.
FailuresOf(backend) ==
    IF backend = "Claude" THEN ClaudeFailures
    ELSE FetchFailures \cup {NotOkError(r) : r \in NotOkResponses}

\* A loop bound of three attempts for every backend.
maxAttemptsOfAlwaysThree(backend) == 3

\* const maxAttempts = 3 (hosted), 2 (self-hosted)
maxAttemptsOf(backend) == IF backend = "Claude" THEN 3 ELSE 2

\* A retry test that retries every failure.
isRetriableLlmAlways(backend, error) == TRUE

\* const isRetriable = ... of the catch block of either backend
isRetriableLlm(backend, error) ==
    IF backend = "Claude"
    THEN LET statusCode == IF error.status # 0 THEN error.status ELSE error.statusCode
         IN \/ statusCode \in {429, 529, 500, 503}
            \/ LowerIncludes(error.message, "timeout")
            \/ LowerIncludes(error.message, "connection")
    ELSE \/ error.name = "AbortError"
         \/ Includes(error.message, "ECONNREFUSED")
         \/ LowerIncludes(error.message, "timeout")
         \/ LowerIncludes(error.message, "connection")

\* A self-hosted delay used by every backend.
retryDelayFlat(backend, attempt) == 1000

\* Math.pow(2, attempt) * 1000 (hosted), 1000 (self-hosted)
retryDelay(backend, attempt) ==
    IF backend = "Claude" THEN (2 ^ attempt) * 1000 ELSE 1000

\* new ClaudeAPIError(...) / new OllamaError(...) thrown by generateSummary
SummaryError(backend, message) ==
    [name |-> ProviderError(IF backend = "Claude" THEN "Claude" ELSE "Ollama").name,
     code |-> ProviderError(IF backend = "Claude" THEN "Claude" ELSE "Ollama").code,
     statusCode |-> 503,
     message |-> message]

\* An emptiness test that lets every list through.
EmptyMessageListNever(msgs) == FALSE

\* !messages || messages.length === 0
EmptyMessageList(msgs) == msgs = "absent" \/ msgs = "empty"

\* generateSummary(messages, date) up to its first await.
generateSummary(backend, msgs, apiKey) ==
    LET base == [backend |-> backend, msgs |-> msgs, apiKey |-> apiKey,
                 attempt |-> 0, calls |-> 0, sleeps |-> << >>, failures |-> << >>]
    IN IF EmptyMessageList(msgs)
       THEN base @@
            [state |-> "rejected",
             error |-> SummaryError(backend, <<"Cannot", "generate", "summary",
                                               "from", "empty", "message", "list">>)]
       ELSE IF backend = "Claude" /\ ~apiKey
       THEN base @@
            [state |-> "rejected",
             error |-> SummaryError(backend, <<"ANTHROPIC_API_KEY", "environment",
                                               "variable", "is", "not", "set">>)]
       ELSE base @@ [state |-> "call"]

GenCall ==
    /\ llm.state = "none"
    /\ \E backend \in Backends, msgs \in {"absent", "empty", "some"}, apiKey \in BOOLEAN :
          llm' = generateSummary(backend, msgs, apiKey)
    /\ UNCHANGED <<dbVars, dbCall, clientVars, passVars, parse>>

\* The backend call resolves; generateSummary returns the text.
GenCallOk ==
    /\ llm.state = "call"
    /\ \E text \in RawTexts :
          llm' = [backend |-> llm.backend, msgs |-> llm.msgs, apiKey |-> llm.apiKey,
                  attempt |-> llm.attempt, calls |-> llm.calls + 1,
                  sleeps |-> llm.sleeps, failures |-> llm.failures,
                  state |-> "resolved", result |-> text]
    /\ UNCHANGED <<dbVars, dbCall, clientVars, passVars, parse>>

\* The backend call fails (or answers with a status that is not OK); the
\* catch block breaks out of the loop or starts the backoff sleep.
GenCallFail ==
    /\ llm.state = "call"
    /\ \E error \in FailuresOf(llm.backend) :
          LET base == [backend |-> llm.backend, msgs |-> llm.msgs, apiKey |-> llm.apiKey,
                       attempt |-> llm.attempt, calls |-> llm.calls + 1,
                       failures |-> Append(llm.failures, error)]
          IN IF ~isRetriableLlm(llm.backend, error)
                \/ llm.attempt = maxAttemptsOf(llm.backend) - 1
             THEN llm' = base @@
                     [sleeps |-> llm.sleeps, state |-> "rejected",
                      error |-> SummaryError(llm.backend,
                                   <<"Failed", "to", "generate", "summary",
                                     "after", "retries">>)]
             ELSE llm' = base @@
                     [sleeps |-> Append(llm.sleeps, retryDelay(llm.backend, llm.attempt)),
                      state |-> "sleep"]
    /\ UNCHANGED <<dbVars, dbCall, clientVars, passVars, parse>>

\* The backoff timer fires; the loop starts the next attempt.
GenSleepDone ==
    /\ llm.state = "sleep"
    /\ llm' = [backend |-> llm.backend, msgs |-> llm.msgs, apiKey |-> llm.apiKey,
               attempt |-> llm.attempt + 1, calls |-> llm.calls,
               sleeps |-> llm.sleeps, failures |-> llm.failures, state |-> "call"]
    /\ UNCHANGED <<dbVars, dbCall, clientVars, passVars, parse>>

InitLlm ==
    /\ messages = << >>
    /\ summaries = << >>
    /\ lastInsertRowid = [c \in {"t", "p1", "p2"} |-> 0]
    /\ dbCall = NoCall
    /\ remote = [c \in ChatIds |-> << << >> >>]
    /\ mockMode = FALSE
    /\ fetch = [p \in Procs |-> NoFetch]
    /\ NoPasses
    /\ NoLlmCalls

NextLlm == GenCall \/ GenCallOk \/ GenCallFail \/ GenSleepDone

SpecLlm == InitLlm /\ [][NextLlm]_vars

\* ------------------------------------------------------------------------
\* Properties of generateSummary
\* ------------------------------------------------------------------------
Hosted == llm.state # "none" /\ llm.backend = "Claude"

SelfHosted == llm.state # "none" /\ llm.backend # "Claude"

ClaudeStatus(error) == IF error.status # 0 THEN error.status ELSE error.statusCode

\* The failures behind which the loop went on to a backoff sleep.
Retried ==
    {i \in 1..Len(llm.failures) : i < Len(llm.failures) \/ llm.state = "sleep"}

\* C14: the hosted generateSummary makes at most 3 backend calls; when every
\* call failed with a retriable status it has made exactly 3 calls, slept
\* 1s then 2s and not after the last, and failed with ClaudeAPIError; and a
\* call that succeeds ends the invocation: no further call, no sleep.
C14_HostedRetryBound ==
    /\ [](Hosted =>
            /\ llm.calls <= 3
            /\ (/\ llm.state = "rejected"
                /\ llm.failures # << >>
                /\ \A i \in 1..Len(llm.failures) :
                      ClaudeStatus(llm.failures[i]) \in {429, 500, 503, 529})
               => /\ llm.calls = 3
                  /\ llm.sleeps = <<1000, 2000>>
                  /\ llm.error.name = "ClaudeAPIError"
            /\ llm.state = "resolved" =>
                  /\ llm.calls = Len(llm.failures) + 1
                  /\ Len(llm.sleeps) = Len(llm.failures))
    /\ [][(llm.state = "resolved" /\ llm.backend = "Claude") => llm' = llm]_vars

C14_Witness ==
    /\ Hosted
    /\ llm.state = "rejected"
    /\ llm.calls = 3
    /\ \A i \in 1..Len(llm.failures) : ClaudeStatus(llm.failures[i]) = 529

\* C15: the hosted backend goes on to a retry only behind a failure whose
\* status is 429, 500, 503 or 529; every other failure ends the invocation
\* without a backoff sleep.
C15_HostedRetryOnlyStatus ==
    Hosted =>
        \A i \in Retried : ClaudeStatus(llm.failures[i]) \in {429, 500, 503, 529}

\* C16: the self-hosted generateSummary makes at most 2 backend calls; when
\* every call failed with a request timeout or a refused connection it has
\* made exactly 2 calls with one sleep of 1s between them and failed with
\* OllamaError.
TimeoutOrRefused(error) ==
    error \in {[name |-> "Error", message |-> <<"Timeout">>],
               [name |-> "AbortError", message |-> <<"Timeout">>],
               [name |-> "Error", message |-> <<"ECONNREFUSED">>]}

C17_SelfHostedRetryOnlyNetwork ==
    SelfHosted =>
        \A i \in Retried : TimeoutOrRefused(llm.failures[i])

\* C18: both backends reject an empty or absent message list with their own
\* error before any backend call: zero calls, no sleep.
C18_EmptyListFailsFast ==
    (llm.state # "none" /\ llm.msgs \in {"absent", "empty"}) =>
        /\ llm.state = "rejected"
        /\ llm.calls = 0
        /\ llm.sleeps = << >>
        /\ llm.error.name = (IF llm.backend = "Claude" THEN "ClaudeAPIError"
                             ELSE "OllamaError")

C18_Witness ==
    /\ llm.state = "rejected"
    /\ llm.msgs = "empty"
    /\ llm.backend = "Ollama"
    /\ llm.calls = 0

\* C19: authentication and configuration errors are never retried.  The
\* hosted backend without an API key fails before any backend call; a
\* failure with status 401 (hosted) or a response with status 400
\* (self-hosted) is the last call of the invocation, so an invocation whose
\* first call is rejected with 401 makes exactly one call.
AuthOrConfigFailure(error) ==
    \/ "status" \in DOMAIN error /\ error.status \in {400, 401}
    \/ error = NotOkError([ok |-> FALSE, status |-> 400,
                           statusText |-> <<"Bad", "Request">>])

C19_NoRetryOnAuthConfig ==
    /\ (Hosted /\ ~llm.apiKey) =>
          /\ llm.state = "rejected"
          /\ llm.calls = 0
          /\ llm.error.name = "ClaudeAPIError"
    /\ llm.state # "none" =>
          \A i \in 1..Len(llm.failures) :
              AuthOrConfigFailure(llm.failures[i]) =>
                  /\ i = Len(llm.failures)
                  /\ llm.state = "rejected"
                  /\ llm.calls = i
                  /\ Len(llm.sleeps) = i - 1

C19_Witness ==
    /\ Hosted
    /\ llm.state = "rejected"
    /\ llm.calls = 1
    /\ llm.failures[1].status = 401

\* ------------------------------------------------------------------------
\* lib/db.ts: the registry of monitored chats, called directly
\* ------------------------------------------------------------------------
\* saveMonitoredChat whose DO UPDATE leaves is_active as it is.
saveMonitoredChatKeepActiveFlag(rows, last, chat) ==
    LET hit == {i \in 1..Len(rows) : rows[i].chatId = chat.chatId}
        row == [chatId   |-> chat.chatId,
                chatName |-> OrNull(chat.chatName),
                chatType |-> OrNull(chat.chatType),
                status   |-> IF chat.status = "" THEN "active" ELSE chat.status,
                isActive |-> 1]
    IN IF hit = {}
       THEN [rows |-> Append(rows, row), last |-> Len(rows) + 1, result |-> Len(rows) + 1]
       ELSE [rows |-> [i \in 1..Len(rows) |->
                         IF i \in hit THEN [row EXCEPT !.isActive = rows[i].isActive]
                         ELSE rows[i]],
             last |-> last, result |-> last]

\* saveMonitoredChat(db, chat): INSERT ... ON CONFLICT(chat_id) DO UPDATE SET
\* chat_name, chat_type, status from the new values and is_active = 1.  An
\* absent name or type is stored as NULL, an absent status as 'active'.
saveMonitoredChat(rows, last, chat) ==
    LET hit == {i \in 1..Len(rows) : rows[i].chatId = chat.chatId}
        row == [chatId   |-> chat.chatId,
                chatName |-> OrNull(chat.chatName),
                chatType |-> OrNull(chat.chatType),
                status   |-> IF chat.status = "" THEN "active" ELSE chat.status,
                isActive |-> 1]
    IN IF hit = {}
       THEN [rows |-> Append(rows, row), last |-> Len(rows) + 1, result |-> Len(rows) + 1]
       ELSE [rows |-> [i \in 1..Len(rows) |-> IF i \in hit THEN row ELSE rows[i]],
             last |-> last, result |-> last]

\* A deactivation that deletes the row.
deactivateMonitoredChatDelete(rows, chatId) ==
    LET keep == {i \in 1..Len(rows) : rows[i].chatId # chatId}
        F[i \in 0..Len(rows)] ==
            IF i = 0 THEN << >>
            ELSE IF i \in keep THEN Append(F[i - 1], rows[i]) ELSE F[i - 1]
    IN F[Len(rows)]

\* deactivateMonitoredChat(db, chatId): UPDATE ... SET is_active = 0
deactivateMonitoredChat(rows, chatId) ==
    [i \in 1..Len(rows) |->
        IF rows[i].chatId = chatId THEN [rows[i] EXCEPT !.isActive = 0] ELSE rows[i]]

\* getAllMonitoredChats(db, includeIgnored): the rows with is_active = 1,
\* without those of status 'ignored' unless includeIgnored, newest first.
getAllMonitoredChats(rows, includeIgnored) ==
    LET F[i \in 0..Len(rows)] ==
            IF i = 0 THEN << >>
            ELSE IF /\ rows[i].isActive = 1
                    /\ (includeIgnored \/ rows[i].status # "ignored")
                 THEN <<rows[i]>> \o F[i - 1]
                 ELSE F[i - 1]
    IN F[Len(rows)]

\* The entries a caller registers; "" stands for an absent field.
ChatInputs ==
    [chatId : ChatIds, chatName : {"", "Alpha", "Beta"},
     chatType : {"", "group"}, status : {"", "active", "ignored"}]

InitChats ==
    /\ messages \in InitialCaches
    /\ summaries = << >>
    /\ lastInsertRowid = [c \in {"t", "p1", "p2"} |-> 0]
    /\ dbCall = NoCall
    /\ remote = [c \in ChatIds |-> << << >> >>]
    /\ mockMode = FALSE
    /\ fetch = [p \in Procs |-> NoFetch]
    /\ NoPasses
    /\ NoLlmCalls

DbSaveMonitoredChat ==
    \E chat \in ChatInputs :
        LET r == saveMonitoredChat(monitored_chats, lastInsertRowid["t"], chat)
        IN /\ monitored_chats' = r.rows
           /\ lastInsertRowid' = [lastInsertRowid EXCEPT !["t"] = r.last]
           /\ dbCall' = [op |-> "saveMonitoredChat", arg |-> chat, result |-> r.result]
           /\ UNCHANGED <<messages, summaries, clientVars, envProvider,
                          pc, req, loc, resp, hist, llmVars>>

DbDeactivateMonitoredChat ==
    \E c \in ChatIds :
        /\ monitored_chats' = deactivateMonitoredChat(monitored_chats, c)
        /\ dbCall' = [op |-> "deactivateMonitoredChat", chatId |-> c]
        /\ UNCHANGED <<dbVars, clientVars, envProvider, pc, req, loc, resp, hist, llmVars>>

NextChats == DbSaveMonitoredChat \/ DbDeactivateMonitoredChat

SpecChats == InitChats /\ [][NextChats]_vars

\* C20: registering is an idempotent upsert keyed by conversation id.  There
\* is never more than one row per conversation id; a register call leaves
\* the entry's row with the new name, kind and status and active, whatever
\* it was before, and every other row as it was; and registering the same
\* entry once more changes nothing.
RowsOfChat(rows, c) == {i \in 1..Len(rows) : rows[i].chatId = c}

Registers(chat) ==
    /\ dbCall'.op = "saveMonitoredChat"
    /\ dbCall'.arg = chat
    /\ monitored_chats' # monitored_chats \/ dbCall' # dbCall

C20_IdempotentUpsert ==
    /\ [](\A c \in ChatIds : Cardinality(RowsOfChat(monitored_chats, c)) <= 1)
    /\ [][\A chat \in ChatInputs : Registers(chat) =>
             /\ \E i \in 1..Len(monitored_chats') :
                   /\ monitored_chats'[i].chatId = chat.chatId
                   /\ monitored_chats'[i].chatName =
                         (IF chat.chatName = "" THEN NULL ELSE chat.chatName)
                   /\ monitored_chats'[i].chatType =
                         (IF chat.chatType = "" THEN NULL ELSE chat.chatType)
                   /\ monitored_chats'[i].status =
                         (IF chat.status = "" THEN "active" ELSE chat.status)
                   /\ monitored_chats'[i].isActive = 1
             /\ \A i \in 1..Len(monitored_chats) :
                   monitored_chats[i].chatId # chat.chatId =>
                       monitored_chats'[i] = monitored_chats[i]
             /\ saveMonitoredChat(monitored_chats', lastInsertRowid'["t"], chat).rows
                   = monitored_chats']_vars

C20_Witness ==
    /\ dbCall.op = "saveMonitoredChat"
    /\ dbCall.arg.chatName = "Beta"
    /\ dbCall.arg.status = "ignored"
    /\ Len(monitored_chats) = 2
    /\ \E i \in 1..Len(monitored_chats) :
          /\ monitored_chats[i].chatId = dbCall.arg.chatId
          /\ monitored_chats[i].chatName = "Beta"
          /\ monitored_chats[i].isActive = 1
          /\ i = 1

\* C21: deactivating a conversation only marks it inactive.  Its row still
\* exists with the same name, kind and status; it is no longer in the list
\* of active monitored conversations; and every other conversation row,
\* every cached message and every summary is as before.
Deactivates(c) ==
    /\ dbCall'.op = "deactivateMonitoredChat"
    /\ dbCall'.chatId = c
    /\ monitored_chats' # monitored_chats \/ dbCall' # dbCall

C21_DeactivateOnlyMarks ==
    [][\A c \in ChatIds : Deactivates(c) =>
          /\ Len(monitored_chats') = Len(monitored_chats)
          /\ \A i \in 1..Len(monitored_chats) :
                IF monitored_chats[i].chatId = c
                THEN monitored_chats'[i] = [monitored_chats[i] EXCEPT !.isActive = 0]
                ELSE monitored_chats'[i] = monitored_chats[i]
          /\ \A b \in BOOLEAN :
                LET list == getAllMonitoredChats(monitored_chats', b)
                IN \A i \in 1..Len(list) : list[i].chatId # c
          /\ messages' = messages
          /\ summaries' = summaries]_vars

C21_Witness ==
    /\ dbCall.op = "deactivateMonitoredChat"
    /\ Len(monitored_chats) = 2
    /\ Len(messages) > 0
    /\ \E i \in 1..2 : /\ monitored_chats[i].chatId = dbCall.chatId
                       /\ monitored_chats[i].isActive = 0
                       /\ monitored_chats[3 - i].isActive = 1

\* ------------------------------------------------------------------------
\* lib/db.ts: the summaries table, called directly
\* ------------------------------------------------------------------------
\* ORDER BY period_start DESC, generated_at DESC: row a sorts before row b.
\* Both columns hold text and are compared as text.
SortsBefore(a, b) ==
    \/ IsoLess(b.periodStart, a.periodStart)
    \/ a.periodStart = b.periodStart /\ a.generatedAt > b.generatedAt

\* getLatestSummary(db, chatId): the first row of the chat in the order
\* above, or null.  The order of rows that tie in both columns is not
\* determined by the statement, so this is the set of rows it can return.
getLatestSummary(rows, chatId) ==
    LET mine == {i \in 1..Len(rows) : rows[i].chatId = chatId}
        top  == {i \in mine : \A j \in mine : ~SortsBefore(rows[j], rows[i])}
    IN IF mine = {} THEN {NoRow}
       ELSE {[id |-> i, row |-> rows[i]] : i \in top}

SummaryInputs ==
    [chatId : ChatIds, periodStart : {d * TicksPerDay : d \in Days},
     summaryText : {<<"fine">>}]

InitSummaries ==
    /\ messages = << >>
    /\ summaries = << >>
    /\ lastInsertRowid = [c \in {"t", "p1", "p2"} |-> 0]
    /\ dbCall = NoCall
    /\ remote = [c \in ChatIds |-> << << >> >>]
    /\ mockMode = FALSE
    /\ fetch = [p \in Procs |-> NoFetch]
    /\ NoPasses
    /\ NoLlmCalls

DbSaveSummary ==
    /\ Len(summaries) < MaxSummaries
    /\ \E in \in SummaryInputs, now \in NowAfter(summaries) :
          LET r == saveSummary(summaries, lastInsertRowid["t"],
                      [chatId |-> in.chatId, periodStart |-> in.periodStart,
                       periodEnd |-> in.periodStart, summaryText |-> in.summaryText,
                       actionItems |-> [json |-> "[]"]], now)
          IN /\ summaries' = r.rows
             /\ lastInsertRowid' = [lastInsertRowid EXCEPT !["t"] = r.last]
             /\ dbCall' = [op |-> "saveSummary", result |-> r.result]
    /\ UNCHANGED <<messages, clientVars, passVars, llmVars>>

DbGetLatestSummary ==
    /\ \E c \in ChatIds : \E r \in getLatestSummary(summaries, c) :
          dbCall' = [op |-> "getLatestSummary", chatId |-> c, result |-> r]
    /\ UNCHANGED <<dbVars, clientVars, passVars, llmVars>>

NextSummaries == DbSaveSummary \/ DbGetLatestSummary

SpecSummaries == InitSummaries /\ [][NextSummaries]_vars

\* C22: getLatestSummary returns absent when the conversation has no
\* summary, and otherwise the summary of that conversation with the greatest
\* period start, the one saved last among those with that period start.
SummariesOf(c) == {i \in 1..Len(summaries) : summaries[i].chatId = c}

LatestOf(c) ==
    CHOOSE i \in SummariesOf(c) :
        \A j \in SummariesOf(c) :
            \/ summaries[j].periodStart.t < summaries[i].periodStart.t
            \/ summaries[j].periodStart.t = summaries[i].periodStart.t /\ j <= i

C22_LatestSummary ==
    dbCall.op = "getLatestSummary" =>
        IF SummariesOf(dbCall.chatId) = {}
        THEN dbCall.result = NoRow
        ELSE /\ dbCall.result # NoRow
             /\ dbCall.result.id = LatestOf(dbCall.chatId)

\* C23: getMessages(conversation, since) returns exactly the cached messages
\* of the conversation created strictly later than since: a message created
\* at the instant since is not among them.
CreatedAfter(c, t) ==
    {messages[i].messageId : i \in {j \in 1..Len(messages) :
        messages[j].chatId = c /\ messages[j].createdAt.t > t}}

C23_SinceStrictlyAfter ==
    (dbCall.op = "getMessages" /\ dbCall.since.given) =>
        {dbCall.result[i].messageId : i \in 1..Len(dbCall.result)}
            = CreatedAfter(dbCall.chatId, dbCall.since.t)

\* C24: the fetch step of a sync pass asks the remote service for the
\* messages since the creation time of the conversation's last cached
\* message, and for all of them when none is cached.
LastCached(c) ==
    LET mine == {i \in 1..Len(messages) : messages[i].chatId = c}
    IN IF mine = {} THEN NoSince
       ELSE [given |-> TRUE,
             t |-> messages[CHOOSE i \in mine :
                      \A j \in mine : messages[j].createdAt.t <= messages[i].createdAt.t
                   ].createdAt.t]

C24_FetchSinceLastCached ==
    [][\A p \in Procs :
          (pc[p] = "auth" /\ pc'[p] = "fetch") =>
              fetch'[p].since = LastCached(req[p].chatId)]_vars

\* C26: a summarize request without a conversation id, or with a start or
\* end date that is not a valid date, ends as a validation error.
MalformedPost(r) ==
    /\ r.kind = "POST"
    /\ \/ r.chatId = ""
       \/ r.startDate.fmt # "day"
       \/ r.endDate.fmt # "day"

C26_MalformedIsValidationError ==
    \A p \in Procs :
        (pc[p] = "done" /\ MalformedPost(req[p]) /\ resp[p].status # 401) =>
            resp[p] = Err("VALIDATION_ERROR", 400)

\* C27: generateSummary fails with "Failed to generate summary after
\* retries" only when retriable failures used up all its attempts.
AfterRetries == <<"Failed", "to", "generate", "summary", "after", "retries">>

C27_AfterRetriesOnlyWhenExhausted ==
    (llm.state = "rejected" /\ llm.error.message = AfterRetries) =>
        /\ llm.calls = maxAttemptsOf(llm.backend)
        /\ \A i \in 1..Len(llm.failures) : isRetriableLlm(llm.backend, llm.failures[i])

\* C28: the GraphAPIError of a failed fetch wraps the last failure and the
\* number of attempts that were made.
C28_AttemptCount ==
    \A p \in Procs :
        fetch[p].state = "rejected" =>
            /\ fetch[p].error.details.originalError
                  = fetch[p].failures[Len(fetch[p].failures)]
            /\ fetch[p].error.details.attempts = fetch[p].runs

\* ------------------------------------------------------------------------
\* A sync pass over a cache whose statements can fail
\* ------------------------------------------------------------------------
\* The save loop of GET when the saveMessage calls at the positions in
\* faults throw DatabaseError (the disk is full, the file is locked): the
\* catch block of the loop catches the error and the loop goes on.
RECURSIVE SaveFetchedWithFaults(_, _, _, _, _, _)
SaveFetchedWithFaults(rows, last, chatId, msgs, faults, k) ==
    IF k > Len(msgs) THEN [rows |-> rows, last |-> last, savedCount |-> 0]
    ELSE LET r == IF k \in faults
                  THEN [rows |-> rows, last |-> last, threw |-> TRUE]
                  ELSE saveMessage(rows, last,
                          [messageId |-> msgs[k].id, chatId |-> chatId,
                           author |-> msgs[k].author, content |-> msgs[k].content,
                           createdAt |-> [isDate |-> FALSE,
                                          str |-> msgs[k].createdDateTime]])
             rest == SaveFetchedWithFaults(r.rows, r.last, chatId, msgs, faults, k + 1)
         IN [rows |-> rest.rows, last |-> rest.last,
             savedCount |-> rest.savedCount + (IF r.threw THEN 0 ELSE 1)]

\* GET lines 45-72 when at least one saveMessage call throws.
GetCacheStorageFault(p) ==
    /\ pc[p] = "fetch"
    /\ fetch[p].state = "resolved"
    /\ \E faults \in (SUBSET (1..Len(fetch[p].result))) \ {{}} :
          LET r == SaveFetchedWithFaults(messages, lastInsertRowid[p], fetch[p].chatId,
                                         fetch[p].result, faults, 1)
          IN /\ messages' = r.rows
             /\ lastInsertRowid' = [lastInsertRowid EXCEPT ![p] = r.last]
             /\ resp' = [resp EXCEPT ![p] =
                   Ok([messages |-> getMessages(r.rows, req[p].chatId, NoSince),
                       newMessageCount |-> r.savedCount])]
             /\ hist' = [hist EXCEPT ![p].inserted = Len(r.rows) - Len(messages),
                                     ![p].saveErrors = Cardinality(faults)]
    /\ pc' = [pc EXCEPT ![p] = "done"]
    /\ UNCHANGED <<summaries, dbCall, llmVars, clientVars, monitored_chats,
                   envProvider, req, loc>>

NextFaults ==
    \/ Request("p1", GetRequests)
    \/ AuthFail("p1")
    \/ GetHandle("p1")
    \/ GetFetchOk("p1")
    \/ GetFetchFail("p1", PassErrors)
    \/ GetSleepDone("p1")
    \/ GetCache("p1")
    \/ GetCacheStorageFault("p1")
    \/ GetReject("p1")

SpecFaults == Init /\ [][NextFaults]_vars

\* C25: a storage failure while saving a fetched message aborts the sync
\* pass and reaches the caller as an error: a pass in which a save failed
\* never answers with success.
C25_SaveFailurePropagates ==
    \A p \in Procs :
        (pc[p] = "done" /\ hist[p].saveErrors > 0) =>
            /\ resp[p].sent
            /\ ~resp[p].success

\* ------------------------------------------------------------------------
\* lib/microsoft-graph.ts: getChats, called directly
\* ------------------------------------------------------------------------
\* new Date() at the time of the call.
Now == (MaxDay + 1) * TicksPerDay - 1

Chat(id, last) == [id |-> id, lastMessagePreview |-> last]

\* The pages of /me/chats and the chains of pages linked by @odata.nextLink.
ChatPages ==
    LET ChatA == Chat("k1", [absent |-> FALSE, createdDateTime |-> [t |-> 0, frac |-> TRUE]])
        ChatB == Chat("k2", [absent |-> FALSE, createdDateTime |-> [t |-> Now, frac |-> TRUE]])
        ChatC == Chat("k3", [absent |-> FALSE,
                             createdDateTime |-> [t |-> TicksPerDay, frac |-> FALSE]])
        ChatD == Chat("k4", [absent |-> TRUE])
    IN {<< >>, <<ChatA>>, <<ChatB>>, <<ChatC>>, <<ChatD>>,
        <<ChatA, ChatB>>, <<ChatC, ChatA>>}

ChatChains == SeqsUpTo(ChatPages, MaxPages) \ {<< >>}

\* The canned chats of mock mode, all active now.
MockChats ==
    <<Chat("chat-1", [absent |-> FALSE, createdDateTime |-> toISOString(Now)]),
      Chat("chat-2", [absent |-> FALSE, createdDateTime |-> toISOString(Now)]),
      Chat("chat-3", [absent |-> FALSE, createdDateTime |-> toISOString(Now)])>>

\* cutoffDate: setDate(getDate() - daysBack)
CutoffDate(daysBack) == Now - daysBack * TicksPerDay

\* A filter that keeps every chat that has a last message.
RecentChatsAny(chats, cutoffDate) ==
    SelectSeq(chats, LAMBDA c : ~c.lastMessagePreview.absent)

\* lines 109-112, 121-124: lastActivity && new Date(lastActivity) >= cutoffDate
RecentChats(chats, cutoffDate) ==
    SelectSeq(chats, LAMBDA c :
        /\ ~c.lastMessagePreview.absent
        /\ c.lastMessagePreview.createdDateTime.t >= cutoffDate)

\* lines 125-130: the stable sort by dateB.localeCompare(dateA)
RECURSIVE InsertNewestFirst(_, _)
InsertNewestFirst(sorted, chat) ==
    IF sorted = << >> THEN <<chat>>
    ELSE IF IsoLess(Head(sorted).lastMessagePreview.createdDateTime,
                    chat.lastMessagePreview.createdDateTime)
         THEN <<chat>> \o sorted
         ELSE <<Head(sorted)>> \o InsertNewestFirst(Tail(sorted), chat)

RECURSIVE SortNewestFirst(_)
SortNewestFirst(chats) ==
    IF chats = << >> THEN << >>
    ELSE InsertNewestFirst(SortNewestFirst(SubSeq(chats, 1, Len(chats) - 1)),
                           chats[Len(chats)])

\* lines 102-117: the page loop.  failAt is the page whose request fails
\* (0: none).  The result is the list of chats fetched, or a failure.
RECURSIVE ChatsLoop(_, _, _, _, _, _, _)
ChatsLoop(chain, url, allChats, fetchedCount, cutoffDate, maxResults, failAt) ==
    IF url > Len(chain) \/ ~(fetchedCount < maxResults * 2)
    THEN [threw |-> FALSE, allChats |-> allChats, gets |-> url - 1]
    ELSE IF url = failAt
    THEN [threw |-> TRUE, gets |-> url]
    ELSE LET all == allChats \o chain[url]
         IN IF Len(RecentChats(all, cutoffDate)) >= maxResults
            THEN [threw |-> FALSE, allChats |-> all, gets |-> url]
            ELSE ChatsLoop(chain, url + 1, all, fetchedCount + Len(chain[url]),
                           cutoffDate, maxResults, failAt)

\* getChats(daysBack, maxResults)
getChats(mock, chain, daysBack, maxResults, failAt) ==
    IF mock THEN [state |-> "resolved", result |-> MockChats, gets |-> 0]
    ELSE LET loop == ChatsLoop(chain, 1, << >>, 0, CutoffDate(daysBack), maxResults, failAt)
         IN IF loop.threw
            THEN [state |-> "rejected", gets |-> loop.gets,
                  error |-> [name |-> "GraphAPIError", code |-> "GRAPH_API_ERROR",
                             statusCode |-> 502, message |-> "Failed to fetch chats"]]
            ELSE LET sorted == SortNewestFirst(RecentChats(loop.allChats, CutoffDate(daysBack)))
                 IN [state |-> "resolved", gets |-> loop.gets,
                     result |-> SubSeq(sorted, 1,
                                  IF Len(sorted) < maxResults THEN Len(sorted)
                                  ELSE maxResults)]

InitChatList ==
    /\ messages = << >>
    /\ summaries = << >>
    /\ lastInsertRowid = [c \in {"t", "p1", "p2"} |-> 0]
    /\ dbCall = NoCall
    /\ remote \in [ChatIds -> ChatChains]
    /\ \A c \in ChatIds : c # "c1" => remote[c] = << << >> >>
    /\ mockMode \in BOOLEAN
    /\ fetch = [p \in Procs |-> NoFetch]
    /\ NoPasses
    /\ NoLlmCalls

\* One call of getChats against the chain of pages held for "c1".
ChatsCall ==
    /\ fetch["p1"].state = "none"
    /\ \E daysBack \in 0..(MaxDay + 1), maxResults \in 0..3,
          failAt \in 0..Len(remote["c1"]) :
          fetch' = [fetch EXCEPT !["p1"] =
                      getChats(mockMode, remote["c1"], daysBack, maxResults, failAt)
                      @@ [op |-> "getChats", daysBack |-> daysBack,
                          maxResults |-> maxResults, failAt |-> failAt]]
    /\ UNCHANGED <<dbVars, dbCall, llmVars, remote, mockMode, passVars>>

NextChatList == ChatsCall

SpecChatList == InitChatList /\ [][NextChatList]_vars

\* C29 (as the code has it): outside mock mode getChats returns only
\* conversations whose last activity is at or after the cutoff, newest
\* activity first, and never more than maxResults of them; a failing page
\* request makes it fail with GraphAPIError.  In mock mode it returns the
\* three canned conversations whatever daysBack and maxResults are.
ChatsResultOk(f) ==
    /\ \A i \in 1..Len(f.result) :
          /\ ~f.result[i].lastMessagePreview.absent
          /\ f.result[i].lastMessagePreview.createdDateTime.t >= CutoffDate(f.daysBack)
    /\ \A i, j \in 1..Len(f.result) :
          i < j => f.result[i].lastMessagePreview.createdDateTime.t
                      >= f.result[j].lastMessagePreview.createdDateTime.t
    /\ Len(f.result) <= f.maxResults

ChatsFailureOk(f) ==
    (f.failAt # 0 /\ f.gets >= f.failAt) =>
        /\ f.state = "rejected"
        /\ f.error.name = "GraphAPIError"

DbSaveEditedMessage ==
    \E m \in [messageId : MsgIds, chatId : {"c1"}, author : {"Alice", "Bob"},
              content : {"hello", "edited"},
              createdAt : {[isDate |-> TRUE, t |-> t] : t \in {0, 1}}] :
        LET r == saveMessage(messages, lastInsertRowid["t"], m)
        IN /\ messages' = r.rows
           /\ lastInsertRowid' = [lastInsertRowid EXCEPT !["t"] = r.last]
           /\ dbCall' = [op |-> "saveMessage", arg |-> m,
                         wasCached |-> HasMessageId(messages, m.messageId),
                         result |-> r.result, threw |-> r.threw]
           /\ UNCHANGED <<summaries, clientVars, passVars, llmVars>>

\* One chat is registered and a cache that is empty or holds one message.
InitCache ==
    /\ messages \in InitialCaches
    /\ summaries = << >>
    /\ lastInsertRowid = [c \in {"t", "p1", "p2"} |-> 0]
    /\ dbCall = NoCall
    /\ remote = [c \in ChatIds |-> << << >> >>]
    /\ mockMode = FALSE
    /\ fetch = [p \in Procs |-> NoFetch]
    /\ monitored_chats = <<[chatId |-> "c1", chatName |-> "Project Alpha",
                            chatType |-> "group", status |-> "active", isActive |-> 1]>>
    /\ envProvider = "unset"
    /\ pc = [p \in Procs |-> "idle"]
    /\ req = [p \in Procs |-> [kind |-> "none"]]
    /\ loc = [p \in Procs |-> [set |-> FALSE]]
    /\ resp = [p \in Procs |-> [sent |-> FALSE]]
    /\ hist = [p \in Procs |->
                 [queried |-> FALSE, inRange |-> 0, inserted |-> 0,
                  llmCalls |-> 0, llmOutcome |-> "none", summariesAdded |-> 0,
                  saveErrors |-> 0]]
    /\ NoLlmCalls

NextCache ==
    \/ DbSaveEditedMessage
    \/ DbDeactivateMonitoredChat
    \/ DbGetMessages

SpecCache == InitCache /\ [][NextCache]_vars

\* C30: cached messages are never mutated and never deleted: every cache
\* operation leaves each cached row as it was and where it was, so the cache
\* only grows, and a saveMessage call for an already cached id leaves the
\* whole table unchanged whatever author, body and timestamp it carries.
C30_NeverMutatedNeverDeleted ==
    [][/\ Len(messages') >= Len(messages)
       /\ \A i \in 1..Len(messages) : messages'[i] = messages[i]
       /\ (dbCall'.op = "saveMessage" /\ dbCall'.wasCached) =>
             messages' = messages]_vars

C30_Witness ==
    /\ dbCall.op = "saveMessage"
    /\ dbCall.wasCached
    /\ \E i \in 1..Len(messages) :
          /\ messages[i].messageId = dbCall.arg.messageId
          /\ messages[i].author # OrNull(dbCall.arg.author)
          /\ messages[i].content # OrNull(dbCall.arg.content)
          /\ messages[i].createdAt # toISOString(dbCall.arg.createdAt.t)
    /\ \E k \in 1..Len(monitored_chats) : monitored_chats[k].isActive = 0

\* ------------------------------------------------------------------------
\* lib/llm-provider.ts: the factory called under a provider setting, and the
\* provider it returns asked for its name and for the parse of a raw text
\* ------------------------------------------------------------------------
\* process.env.AI_PROVIDER is unset, one of the two provider types, or the
\* string "undefined" that assigning undefined to it leaves behind.
InitProvider ==
    /\ messages = << >>
    /\ summaries = << >>
    /\ lastInsertRowid = [c \in {"t", "p1", "p2"} |-> 0]
    /\ dbCall = NoCall
    /\ remote = [c \in ChatIds |-> << << >> >>]
    /\ mockMode = FALSE
    /\ fetch = [p \in Procs |-> NoFetch]
    /\ NoPasses
    /\ llm = [state |-> "none"]
    /\ \E env \in {"unset", "claude", "ollama", "undefined"},
          text \in {Flatten(segs) : segs \in SeqsUpTo(Segments, MaxSegs - 1)} :
          parse = [done |-> FALSE, env |-> env, text |-> text]

\* getLLMProvider() under the setting, then getName() and
\* parseSummaryResponse(text) of the provider it returned.
ProviderCall ==
    /\ ~parse.done
    /\ LET llmProvider == getLLMProvider(parse.env)
       IN parse' = [done |-> TRUE, env |-> parse.env, text |-> parse.text,
                    name |-> llmProvider,
                    result |-> parseSummaryResponse(llmProvider, parse.text)]
    /\ UNCHANGED <<dbVars, dbCall, clientVars, passVars, llm>>

NextProvider == ProviderCall

SpecProvider == InitProvider /\ [][NextProvider]_vars

\* C31: the provider setting decides getName() ("Claude" for "claude",
\* "Ollama" for "ollama" and for an unset setting), and whichever backend is
\* selected its parseSummaryResponse returns for every raw text a record of
\* exactly the five sections, each a string, the same shape as the other
\* backend's result for that text.
C31_SameShape ==
    parse.done =>
        /\ parse.env = "claude" => parse.name = "Claude"
        /\ parse.env \in {"ollama", "unset"} => parse.name = "Ollama"
        /\ DOMAIN parse.result = {Fields[k] : k \in 1..5}
        /\ \A k \in 1..5 : parse.result[Fields[k]] \in Seq(Tokens)
        /\ \A other \in {"Claude", "Ollama"} :
              /\ DOMAIN parseSummaryResponse(other, parse.text) = DOMAIN parse.result
              /\ \A f \in DOMAIN parse.result :
                    parseSummaryResponse(other, parse.text)[f] \in Seq(Tokens)

C31_Witness ==
    /\ parse.done
    /\ parse.env = "unset"
    /\ parse.name = "Ollama"
    /\ parse.result.overview # << >>
    /\ parseSummaryResponse("Claude", parse.text) # parse.result

\* ------------------------------------------------------------------------
\* POST /api/summarize: two concurrent requests that override the provider
\* ------------------------------------------------------------------------
\* The cache holds a message of the requested day; hist records the
\* process-wide setting at the time the server starts.
InitOverride ==
    /\ messages = <<[messageId |-> "m1", chatId |-> "c1", author |-> "Alice",
                     content |-> "hello", createdAt |-> toISOString(0)]>>
    /\ summaries = << >>
    /\ lastInsertRowid = [c \in {"t", "p1", "p2"} |-> 0]
    /\ dbCall = NoCall
    /\ remote = [c \in ChatIds |-> << << >> >>]
    /\ mockMode = FALSE
    /\ fetch = [p \in Procs |-> NoFetch]
    /\ monitored_chats = <<[chatId |-> "c1", chatName |-> "Project Alpha",
                            chatType |-> "group", status |-> "active", isActive |-> 1]>>
    /\ envProvider \in {"unset", "claude", "ollama"}
    /\ pc = [p \in Procs |-> "idle"]
    /\ req = [p \in Procs |-> [kind |-> "none"]]
    /\ loc = [p \in Procs |-> [set |-> FALSE]]
    /\ resp = [p \in Procs |-> [sent |-> FALSE]]
    /\ hist = [p \in Procs |->
                 [queried |-> FALSE, inRange |-> 0, inserted |-> 0,
                  llmCalls |-> 0, llmOutcome |-> "none", summariesAdded |-> 0,
                  saveErrors |-> 0, envAtStart |-> envProvider]]
    /\ NoLlmCalls

NextOverride ==
    \E p \in Procs :
        \/ Request(p, [kind : {"POST"}, chatId : {"c1"},
                       startDate : {[fmt |-> "day", day |-> 0]},
                       endDate : {[fmt |-> "day", day |-> 0]},
                       provider : {"absent", "claude", "ollama"}])
        \/ AuthFail(p)
        \/ PostHandle(p)
        \/ LlmReturn(p, RawTexts)
        \/ LlmThrow(p)

SpecOverride == InitOverride /\ [][NextOverride]_vars

\* The provider a request names.
Named(p) == IF req[p].provider = "claude" THEN "Claude" ELSE "Ollama"

\* C32: a summarize request that names a provider generates and parses its
\* summary with that provider under every interleaving with another
\* summarize request: the provider object it holds is the named one, a
\* successful answer carries the named provider's parse of the raw text, and
\* a failed generation carries the named provider's error.
C32_OwnProvider ==
    \A p \in Procs :
        (req[p].kind = "POST" /\ req[p].provider # "absent" /\ loc[p].set) =>
            /\ loc[p].llmProvider = Named(p)
            /\ (resp[p].sent /\ resp[p].success) =>
                  resp[p].data.parsed =
                     [overview    |-> Section(resp[p].data.summary, 1, Named(p) = "Ollama"),
                      decisions   |-> Section(resp[p].data.summary, 2, Named(p) = "Ollama"),
                      actionItems |-> Section(resp[p].data.summary, 3, Named(p) = "Ollama"),
                      blockers    |-> Section(resp[p].data.summary, 4, Named(p) = "Ollama"),
                      resources   |-> Section(resp[p].data.summary, 5, Named(p) = "Ollama")]
            /\ (resp[p].sent /\ ~resp[p].success /\ hist[p].llmOutcome = "error") =>
                  resp[p].code = IF Named(p) = "Claude" THEN "CLAUDE_API_ERROR"
                                 ELSE "OLLAMA_ERROR"

C32_Witness ==
    /\ req["p1"].kind = "POST"
    /\ req["p2"].kind = "POST"
    /\ req["p1"].provider = "claude"
    /\ req["p2"].provider = "ollama"
    /\ loc["p2"].set
    /\ loc["p2"].originalProvider = "claude"
    /\ hist["p1"].envAtStart = "unset"
    /\ pc["p2"] = "llm"
    /\ resp["p1"].sent
    /\ resp["p1"].success
    /\ resp["p1"].data.parsed.overview # << >>
    /\ resp["p1"].data.parsed # parseSummaryResponse("Ollama", resp["p1"].data.summary)

\* C33: once no summarize request is in flight, the process-wide provider
\* setting has the value it had before the requests started.
C33_SettingRestored ==
    (\A p \in Procs : pc[p] \in {"idle", "done"}) =>
        envProvider = hist["p1"].envAtStart

\* C34: the retry policy covers the whole paginated fetch: an attempt holds
\* only the records of the pages it has fetched itself, the attempt that
\* follows a failure starts at the first page with an empty list, and a call
\* that succeeds after failed attempts returns the records of every page
\* once, in page order.
C34_RetryRestartsFetch ==
    /\ [](LET f == fetch["p1"]
          IN /\ f.state = "get" =>
                   f.msgs = ConcatPages(f.chatId, f.since, f.url - 1)
             /\ (f.state = "resolved" /\ ~mockMode /\ f.failures # << >>) =>
                   f.result = ConcatPages(f.chatId, f.since, Len(remote[f.chatId])))
    /\ [][(fetch["p1"].state = "sleep" /\ fetch'["p1"].state = "get") =>
              /\ fetch'["p1"].url = 1
              /\ fetch'["p1"].msgs = << >>
              /\ fetch'["p1"].attempt = fetch["p1"].attempt + 1]_vars

C34_Witness ==
    LET f == fetch["p1"]
    IN /\ f.state = "resolved"
       /\ ~mockMode
       /\ Len(remote[f.chatId]) = 2
       /\ f.runs = 2
       /\ f.gets = 4
       /\ Len(f.result) >= 2
       /\ PageValue(f.chatId, f.since, 1) # << >>

\* C35: a summary reflects the full cache state.  The list a summarize pass
\* hands to the model holds exactly the cached messages of the conversation
\* whose creation day lies in the requested range at the time of the query,
\* each once, whichever pass cached them, and the messageCount of the answer
\* is their number.
C35_FullCacheState ==
    /\ [][\A p \in Procs :
            (pc[p] = "auth" /\ pc'[p] = "llm") =>
               /\ {loc'[p].graphMessages[i].id : i \in 1..Len(loc'[p].graphMessages)}
                    = {messages[j].messageId :
                         j \in CachedInRange(req[p].chatId, loc'[p].startDate,
                                             loc'[p].endDate)}
               /\ Len(loc'[p].graphMessages)
                    = Cardinality(CachedInRange(req[p].chatId, loc'[p].startDate,
                                                loc'[p].endDate))
               /\ \A i \in 1..Len(loc'[p].graphMessages) :
                     \E j \in 1..Len(messages) :
                        /\ messages[j].messageId = loc'[p].graphMessages[i].id
                        /\ messages[j].content = loc'[p].graphMessages[i].content
                        /\ messages[j].author = loc'[p].graphMessages[i].author
                        /\ messages[j].createdAt = loc'[p].graphMessages[i].createdDateTime]_vars
    /\ [](\A p \in Procs :
            (req[p].kind = "POST" /\ resp[p].sent /\ resp[p].success) =>
               /\ resp[p].data.messageCount = hist[p].inRange
               /\ resp[p].data.messageCount = Len(loc[p].graphMessages))

\* A summarize pass over both days that counts two messages, one of them
\* cached before the sync pass of the other process, which inserted only the
\* second.
C35_Witness ==
    /\ req["p2"].kind = "POST"
    /\ resp["p2"].sent
    /\ resp["p2"].success
    /\ resp["p2"].data.messageCount = 2
    /\ GetSucceeded("p1")
    /\ hist["p1"].inserted = 1
    /\ Len(fetch["p1"].result) = 1

\* ------------------------------------------------------------------------
\* Two passes under fair scheduling: every pending external call returns or
\* fails, every backoff timer fires, every continuation is run
\* ------------------------------------------------------------------------
\* What the handler of process p does once its request has arrived.
PassStep(p) ==
    \/ AuthFail(p)
    \/ GetHandle(p)
    \/ GetFetchOk(p)
    \/ GetFetchFail(p, PassErrors)
    \/ GetSleepDone(p)
    \/ GetCache(p)
    \/ GetReject(p)
    \/ PostHandle(p)
    \/ LlmReturn(p, RawTexts)
    \/ LlmThrow(p)

\* The requests: a sync pass for a monitored or an unknown chat, a summarize
\* pass for the cached day.
NextLive ==
    \E p \in Procs :
        \/ Request(p, {[kind |-> "GET", chatId |-> c, since |-> NoSince] :
                          c \in {"c1", "c2"}}
                      \cup [kind : {"POST"}, chatId : {"c1"},
                            startDate : {[fmt |-> "day", day |-> 0]},
                            endDate : {[fmt |-> "day", day |-> 0]},
                            provider : {"absent"}])
        \/ PassStep(p)

\* The server starts with one message cached and a remote chain of two pages.
InitLive ==
    /\ Init
    /\ messages # << >>
    /\ envProvider = "unset"
    /\ Len(remote["c1"]) = 2

SpecLive == InitLive /\ [][NextLive]_vars /\ \A p \in Procs : WF_vars(PassStep(p))

\* C36: every pass terminates.  Each process handles one request, and from
\* some point on no pass is in flight any more: every request that arrived
\* has been answered, with a success or an error response.  A fetch never
\* runs more than maxAttempts attempts, and once its retry budget is
\* exhausted it issues no further request and the pass ends with its error.
C36_PassesTerminate ==
    /\ <>[](\A p \in Procs : pc[p] \in {"idle", "done"})
    /\ [](\A p \in Procs :
             /\ fetch[p].state # "none" => fetch[p].runs <= maxAttempts
             /\ pc[p] = "done" => resp[p].sent)
    /\ [][\A p \in Procs :
             fetch[p].state = "rejected" =>
                /\ fetch'[p] = fetch[p]
                /\ pc'[p] # pc[p] => (pc'[p] = "done" /\ ~resp'[p].success)]_vars

C36_Witness ==
    /\ pc["p1"] = "done"
    /\ req["p1"].kind = "GET"
    /\ fetch["p1"].state = "rejected"
    /\ fetch["p1"].runs = maxAttempts
    /\ Len(fetch["p1"].sleeps) = maxAttempts - 1
    /\ resp["p1"].sent
    /\ ~resp["p1"].success
    /\ pc["p2"] = "done"
    /\ req["p2"].kind = "POST"
    /\ resp["p2"].success

\* ------------------------------------------------------------------------
\* A sync pass next to the monitoring operations of /api/chats
\* ------------------------------------------------------------------------
\* POST /api/chats: the body's chat is saved with status || 'active'.
ChatsPost ==
    \E body \in [chatId : {"c1"}, chatName : {"Project Alpha"},
                  chatType : {"group"}, status : {""}] :
        LET r == saveMonitoredChat(monitored_chats, lastInsertRowid["t"],
                    [body EXCEPT !.status = IF body.status = "" THEN "active"
                                            ELSE body.status])
        IN /\ monitored_chats' = r.rows
           /\ lastInsertRowid' = [lastInsertRowid EXCEPT !["t"] = r.last]
           /\ dbCall' = [op |-> "saveMonitoredChat", arg |-> body, result |-> r.result]
           /\ UNCHANGED <<messages, summaries, clientVars, envProvider,
                          pc, req, loc, resp, hist, llmVars>>

\* GET /api/messages handled by process p1 while chats are registered
\* (POST /api/chats) and deactivated (DELETE /api/chats).
NextMonitor ==
    \/ Request("p1", GetRequests)
    \/ AuthFail("p1")
    \/ GetHandle("p1")
    \/ GetFetchOk("p1")
    \/ GetFetchFail("p1", PassErrors)
    \/ GetSleepDone("p1")
    \/ GetCache("p1")
    \/ GetReject("p1")
    \/ ChatsPost
    \/ DbDeactivateMonitoredChat

SpecMonitor == Init /\ [][NextMonitor]_vars

Deactivated(c) ==
    \E k \in 1..Len(monitored_chats) :
        monitored_chats[k].chatId = c /\ monitored_chats[k].isActive = 0

\* C37: messages are fetched only for monitored conversations.  A valid sync
\* request handled while its conversation is deactivated ends at once,
\* rejected as not monitored (or as unauthenticated), without starting a
\* fetch and without changing the cache.
C37_NoFetchWhenDeactivated ==
    [][(/\ pc["p1"] = "auth"
        /\ pc'["p1"] # "auth"
        /\ req["p1"].kind = "GET"
        /\ messageFetchSchemaOk(req["p1"])
        /\ Deactivated(req["p1"].chatId)) =>
           /\ pc'["p1"] = "done"
           /\ resp'["p1"].code \in {"NOT_FOUND", "AUTHENTICATION_ERROR"}
           /\ fetch'["p1"] = fetch["p1"]
           /\ messages' = messages]_vars

====
